---- MODULE Spec2Model ----
(***************************************************************************)
(* Care scheduling backend: appointments, the assignment engine, the       *)
(* validator and the availability history, as state machines.              *)
(*                                                                         *)
(* Conventions of the model                                                *)
(*  - A date is an integer day number; day 0 is a Monday.  The server      *)
(*    clock is taken to run in UTC, so the local-time setHours(0,0,0,0)    *)
(*    of the handlers and the UTC normalisation select the same day.       *)
(*  - A clock time is the string the code handles, kept as a sequence of   *)
(*    character codes: digits are 0..9 and ':' is 10 (as in UTF-16, ':'    *)
(*    sorts after every digit), so the lexicographic comparison of the     *)
(*    model is the string comparison of JavaScript.                        *)
(*  - A location is a position in km on a line; calculateDistance is the   *)
(*    distance between two positions.  No route service token is           *)
(*    configured, so calculateTravelTime is its distance-based estimate.   *)
(*  - A missing object id is 0, a missing date is -1, a missing            *)
(*    invalidationReason is the empty sequence.                            *)
(***************************************************************************)
EXTENDS Integers, Sequences, FiniteSets, TLC

VARIABLES careGivers, careReceivers, availabilities, appointments, nextId,
          settings, now, lastOp, procs, nextCareGiverId, settingsCache

vars == <<careGivers, careReceivers, availabilities, appointments, nextId,
          settings, now, lastOp, procs, nextCareGiverId, settingsCache>>

(***************************************************************************)
(* Bounds of the model                                                     *)
(***************************************************************************)
MaxApt == 2
MaxDay == 1
MaxNow == 1
MaxVersions == 2
MaxCareGivers == 1
MaxCareReceivers == 3
MaxWindowDay == 34

NoId == 0
NoDate == 0 - 1
Colon == 10

Days == 1..MaxDay

(***************************************************************************)
(* Clock-time strings                                                      *)
(***************************************************************************)
\* "HH:MM", both parts zero-padded
T(h, m) == <<h \div 10, h % 10, Colon, m \div 10, m % 10>>

\* String comparison of JavaScript (<) on two strings
RECURSIVE StrLt(_, _)
StrLt(a, b) ==
  IF b = <<>> THEN FALSE
  ELSE IF a = <<>> THEN TRUE
  ELSE IF Head(a) # Head(b) THEN Head(a) < Head(b)
  ELSE StrLt(Tail(a), Tail(b))

StrLe(a, b) == a = b \/ StrLt(a, b)
StrGe(a, b) == ~StrLt(a, b)
StrGt(a, b) == StrLt(b, a)

\* Number(digits): decimal value of a digit string
RECURSIVE DigitsToNumber(_, _)
DigitsToNumber(s, acc) ==
  IF s = <<>> THEN acc ELSE DigitsToNumber(Tail(s), acc * 10 + Head(s))

ColonPos(s) == CHOOSE i \in 1..Len(s) : s[i] = Colon /\ \A j \in 1..(i - 1) : s[j] # Colon

\* s.split(":").map(Number), first and second component
HoursOf(s) == DigitsToNumber(SubSeq(s, 1, ColonPos(s) - 1), 0)
MinutesOf(s) == DigitsToNumber(SubSeq(s, ColonPos(s) + 1, Len(s)), 0)
ToMinutes(s) == HoursOf(s) * 60 + MinutesOf(s)

\* Number.toString() for a natural number below 100
NumToString(n) == IF n < 10 THEN <<n>> ELSE <<n \div 10, n % 10>>

\* String.padStart(2, "0")
PadStart2(s) == IF Len(s) < 2 THEN <<0>> \o s ELSE s

\* The schema pattern /^([01]\d|2[0-3]):([0-5]\d)$/
MatchesHHMM(s) ==
  /\ Len(s) = 5
  /\ s[3] = Colon
  /\ \A i \in {1, 2, 4, 5} : s[i] \in 0..9
  /\ (s[1] \in {0, 1} \/ (s[1] = 2 /\ s[2] \in 0..3))
  /\ s[4] \in 0..5

\* End time as the engine formats it
ComputeEndTime(preferredTime, duration) ==
  LET hours == HoursOf(preferredTime)
      minutes == MinutesOf(preferredTime)
      endMinutes == minutes + duration
  IN NumToString(hours + (endMinutes \div 60)) \o <<Colon>>
       \o PadStart2(NumToString(endMinutes % 60))

(***************************************************************************)
(* Dates                                                                   *)
(***************************************************************************)
DayNames == <<"Monday", "Tuesday", "Wednesday", "Thursday", "Friday",
              "Saturday", "Sunday">>

\* toLocaleDateString("en-GB", {weekday: "long"})
Weekday(d) == DayNames[(d % 7) + 1]

(***************************************************************************)
(* The roster the model starts from                                        *)
(***************************************************************************)
\* A weekly pattern with one slot on each of the given weekdays
Pattern(days, startTime, endTime) ==
  [i \in 1..Len(days) |-> [dayOfWeek |-> days[i],
                           slots |-> <<[startTime |-> startTime, endTime |-> endTime]>>]]

WorkDays == <<"Tuesday", "Wednesday", "Thursday">>

InitialCareGivers ==
  1 :> [isActive |-> TRUE, gender |-> "Female", skills |-> {"personal_care", "companionship"},
        singleHandedOnly |-> FALSE, loc |-> 0,
        availability |-> Pattern(WorkDays, T(8, 0), T(18, 0)), timeOff |-> <<>>]
  @@
  2 :> [isActive |-> TRUE, gender |-> "Female", skills |-> {"personal_care", "companionship"},
        singleHandedOnly |-> FALSE, loc |-> 4,
        availability |-> Pattern(WorkDays, T(8, 0), T(18, 0)), timeOff |-> <<>>]

Visit(n, time, duration, dh) ==
  [visitNumber |-> n, preferredTime |-> time, duration |-> duration,
   requirements |-> {"personal_care"}, doubleHanded |-> dh,
   daysOfWeek |-> {DayNames[i] : i \in 1..7}, recurrencePattern |-> "weekly",
   recurrenceInterval |-> 1, recurrenceStartDate |-> NoDate]

InitialCareReceivers ==
  1 :> [isActive |-> TRUE, genderPreference |-> "No Preference", preferredCareGiver |-> NoId,
        loc |-> 1, createdAt |-> 0,
        dailyVisits |-> <<Visit(1, T(9, 30), 60, FALSE), Visit(2, T(14, 0), 60, TRUE)>>]
  @@
  2 :> [isActive |-> TRUE, genderPreference |-> "No Preference", preferredCareGiver |-> NoId,
        loc |-> 3, createdAt |-> 0,
        dailyVisits |-> <<Visit(1, T(14, 30), 60, TRUE)>>]

InitialAvailabilities ==
  <<[careGiver |-> 1, effectiveFrom |-> 0, effectiveTo |-> NoDate,
     schedule |-> Pattern(WorkDays, T(8, 0), T(18, 0)), timeOff |-> <<>>, isActive |-> TRUE, version |-> 1],
    [careGiver |-> 2, effectiveFrom |-> 0, effectiveTo |-> NoDate,
     schedule |-> Pattern(WorkDays, T(8, 0), T(18, 0)), timeOff |-> <<>>, isActive |-> TRUE, version |-> 1]>>

\* The settings document: the defaults, with a daily cap small enough to reach
DefaultSettings ==
  [maxDistanceKm |-> 20, travelTimeBufferMinutes |-> 15, maxAppointmentsPerDay |-> 8]

InitialSettings == {[DefaultSettings EXCEPT !.maxAppointmentsPerDay = c] : c \in {1, 2}}

\* The settings service's module-level cache (settingsCache, cacheTimestamp):
\* age is Date.now() - cacheTimestamp in milliseconds.  The engine reads its
\* settings through this cache; the specifications of the engine never write
\* the settings, so there the cached and the stored document agree and the
\* engine's operators read the stored one.
NoCache == [present |-> FALSE, value |-> <<>>, age |-> 0]

(***************************************************************************)
(* Messages: a text of the code with the number interpolated into it       *)
(* (0 when the text has none).  A reason is a sequence of such parts.      *)
(***************************************************************************)
Msg(text) == <<[text |-> text, n |-> 0]>>
MsgN(text, n) == <<[text |-> text, n |-> n]>>

\* x || d for a number
OrDefault(x, d) == IF x = 0 THEN d ELSE x

(***************************************************************************)
(* Geo utilities                                                           *)
(***************************************************************************)
calculateDistance(a, b) == IF a >= b THEN a - b ELSE b - a

\* Math.ceil((distance / 30) * 60)
estimateTravelTimeFromDistance(a, b) == ((calculateDistance(a, b) * 60) + 29) \div 30

calculateTravelTime(a, b) == estimateTravelTimeFromDistance(a, b)

(***************************************************************************)
(* Availability store                                                      *)
(***************************************************************************)
\* findOne(...).sort({effectiveFrom: -1}): index of the match, 0 when none
FirstByEffectiveFromDesc(avs, matches) ==
  IF matches = {} THEN 0
  ELSE CHOOSE i \in matches :
         \A j \in matches :
           \/ avs[i].effectiveFrom > avs[j].effectiveFrom
           \/ (avs[i].effectiveFrom = avs[j].effectiveFrom /\ i <= j)

getCurrentForCareGiver(avs, careGiverId, date) ==
  FirstByEffectiveFromDesc(avs,
    {i \in DOMAIN avs :
       /\ avs[i].careGiver = careGiverId
       /\ avs[i].effectiveFrom <= date
       /\ (avs[i].effectiveTo = NoDate \/ avs[i].effectiveTo >= date)
       /\ avs[i].isActive})

\* schedule.find((s) => s.dayOfWeek === dayOfWeek): index, 0 when none
FindDay(schedule, dayOfWeek) ==
  LET hits == {i \in DOMAIN schedule : schedule[i].dayOfWeek = dayOfWeek}
  IN IF hits = {} THEN 0 ELSE CHOOSE i \in hits : \A j \in hits : i <= j

\* slots.some((slot) => startTime >= slot.startTime && endTime <= slot.endTime)
InWorkingHours(slots, startTime, endTime) ==
  \E k \in DOMAIN slots :
    StrGe(startTime, slots[k].startTime) /\ StrLe(endTime, slots[k].endTime)

\* Inline time off of the care giver, at day resolution
OnInlineTimeOff(timeOff, date) ==
  \E k \in DOMAIN timeOff : date >= timeOff[k].startDate /\ date <= timeOff[k].endDate

(***************************************************************************)
(* Feasibility check                                                       *)
(***************************************************************************)
ActiveStatuses == {"scheduled", "in_progress"}

\* Sequence of the ids of S, ascending by startTime (ties in id order)
RECURSIVE SortByStartTime(_, _)
SortByStartTime(apts, S) ==
  IF S = {} THEN <<>>
  ELSE LET m == CHOOSE i \in S :
                  \A j \in S : \/ StrLt(apts[i].startTime, apts[j].startTime)
                               \/ (apts[i].startTime = apts[j].startTime /\ i <= j)
       IN <<m>> \o SortByStartTime(apts, S \ {m})

\* A conflict query that finds nothing
ExistingAppointmentsNone(apts, careGiverId, date) == <<>>

\* The care giver's scheduled/in_progress appointments of the day
ExistingAppointments(apts, careGiverId, date) ==
  SortByStartTime(apts,
    {i \in DOMAIN apts :
       /\ (apts[i].careGiver = careGiverId \/ apts[i].secondaryCareGiver = careGiverId)
       /\ apts[i].date = date
       /\ apts[i].status \in ActiveStatuses})

\* An overlap test without the first case (the new start inside the existing
\* window)
TimeOverlapsEndOrAround(startTime, endTime, apt) ==
  \/ (StrGt(endTime, apt.startTime) /\ StrLe(endTime, apt.endTime))
  \/ (StrLe(startTime, apt.startTime) /\ StrGe(endTime, apt.endTime))

TimeOverlaps(startTime, endTime, apt) ==
  \/ (StrGe(startTime, apt.startTime) /\ StrLt(startTime, apt.endTime))
  \/ (StrGt(endTime, apt.startTime) /\ StrLe(endTime, apt.endTime))
  \/ (StrLe(startTime, apt.startTime) /\ StrGe(endTime, apt.endTime))

Unavailable(reason) == [available |-> FALSE, reason |-> reason]

\* The feasibility check with the daily cap tested before the weekly pattern
isCareGiverAvailableCapFirst(cgs, crs, avs, apts, sets, careGiverId, date, startTime, endTime, loc) ==
  LET travelTimeBuffer == OrDefault(sets.travelTimeBufferMinutes, 15)
      maxAppointmentsPerDay == OrDefault(sets.maxAppointmentsPerDay, 8)
  IN
  IF careGiverId \notin DOMAIN cgs THEN Unavailable(Msg("Care giver not found"))
  ELSE IF ~cgs[careGiverId].isActive THEN Unavailable(Msg("Care giver is inactive"))
  ELSE
  LET careGiver == cgs[careGiverId]
      av == getCurrentForCareGiver(avs, careGiverId, date)
      useInline == av = 0 \/ Len(avs[av].schedule) = 0
      schedule == IF useInline THEN careGiver.availability ELSE avs[av].schedule
      dayOfWeek == Weekday(date)
      d == FindDay(schedule, dayOfWeek)
      existing == ExistingAppointments(apts, careGiverId, date)
      IsBefore(i) == StrLe(apts[i].endTime, startTime)
      IsAfter(i) == StrGe(apts[i].startTime, endTime)
      before == SelectSeq(existing, IsBefore)
      after == SelectSeq(existing, IsAfter)
      last == before[Len(before)]
      next == after[1]
      gapBefore == ToMinutes(startTime) - ToMinutes(apts[last].endTime)
      requiredBefore == calculateTravelTime(crs[apts[last].careReceiver].loc, loc) + travelTimeBuffer
      gapAfter == ToMinutes(apts[next].startTime) - ToMinutes(endTime)
      requiredAfter == calculateTravelTime(loc, crs[apts[next].careReceiver].loc) + travelTimeBuffer
  IN
  IF OnInlineTimeOff(careGiver.timeOff, date)
    THEN Unavailable(Msg("Care giver is on time off"))
  ELSE IF Len(existing) >= maxAppointmentsPerDay
    THEN Unavailable(MsgN("Already has appointments", Len(existing)))
  ELSE IF useInline /\ Len(careGiver.availability) = 0
    THEN Unavailable(Msg("No availability schedule defined"))
  ELSE IF d = 0 \/ Len(schedule[d].slots) = 0
    THEN Unavailable(Msg("Not working on day"))
  ELSE IF ~InWorkingHours(schedule[d].slots, startTime, endTime)
    THEN Unavailable(Msg("Outside working hours"))
  ELSE IF \E k \in DOMAIN existing : TimeOverlaps(startTime, endTime, apts[existing[k]])
    THEN Unavailable(Msg("Time slot conflicts with existing appointment"))
  ELSE IF /\ Len(before) > 0
          /\ apts[last].careReceiver \in DOMAIN crs
          /\ gapBefore < requiredBefore
    THEN Unavailable(MsgN("Insufficient travel time from previous appointment", requiredBefore))
  ELSE IF /\ Len(after) > 0
          /\ apts[next].careReceiver \in DOMAIN crs
          /\ gapAfter < requiredAfter
    THEN Unavailable(MsgN("Insufficient travel time to next appointment", requiredAfter))
  ELSE [available |-> TRUE, reason |-> Msg("Available")]

isCareGiverAvailable(cgs, crs, avs, apts, sets, careGiverId, date, startTime, endTime, loc) ==
  LET travelTimeBuffer == OrDefault(sets.travelTimeBufferMinutes, 15)
      maxAppointmentsPerDay == OrDefault(sets.maxAppointmentsPerDay, 8)
  IN
  IF careGiverId \notin DOMAIN cgs THEN Unavailable(Msg("Care giver not found"))
  ELSE IF ~cgs[careGiverId].isActive THEN Unavailable(Msg("Care giver is inactive"))
  ELSE
  LET careGiver == cgs[careGiverId]
      av == getCurrentForCareGiver(avs, careGiverId, date)
      useInline == av = 0 \/ Len(avs[av].schedule) = 0
      schedule == IF useInline THEN careGiver.availability ELSE avs[av].schedule
      dayOfWeek == Weekday(date)
      d == FindDay(schedule, dayOfWeek)
      existing == ExistingAppointments(apts, careGiverId, date)
      IsBefore(i) == StrLe(apts[i].endTime, startTime)
      IsAfter(i) == StrGe(apts[i].startTime, endTime)
      before == SelectSeq(existing, IsBefore)
      after == SelectSeq(existing, IsAfter)
      last == before[Len(before)]
      next == after[1]
      gapBefore == ToMinutes(startTime) - ToMinutes(apts[last].endTime)
      requiredBefore == calculateTravelTime(crs[apts[last].careReceiver].loc, loc) + travelTimeBuffer
      gapAfter == ToMinutes(apts[next].startTime) - ToMinutes(endTime)
      requiredAfter == calculateTravelTime(loc, crs[apts[next].careReceiver].loc) + travelTimeBuffer
  IN
  IF OnInlineTimeOff(careGiver.timeOff, date)
    THEN Unavailable(Msg("Care giver is on time off"))
  ELSE IF useInline /\ Len(careGiver.availability) = 0
    THEN Unavailable(Msg("No availability schedule defined"))
  ELSE IF d = 0 \/ Len(schedule[d].slots) = 0
    THEN Unavailable(Msg("Not working on day"))
  ELSE IF ~InWorkingHours(schedule[d].slots, startTime, endTime)
    THEN Unavailable(Msg("Outside working hours"))
  ELSE IF Len(existing) >= maxAppointmentsPerDay
    THEN Unavailable(MsgN("Already has appointments", Len(existing)))
  ELSE IF \E k \in DOMAIN existing : TimeOverlaps(startTime, endTime, apts[existing[k]])
    THEN Unavailable(Msg("Time slot conflicts with existing appointment"))
  ELSE IF /\ Len(before) > 0
          /\ apts[last].careReceiver \in DOMAIN crs
          /\ gapBefore < requiredBefore
    THEN Unavailable(MsgN("Insufficient travel time from previous appointment", requiredBefore))
  ELSE IF /\ Len(after) > 0
          /\ apts[next].careReceiver \in DOMAIN crs
          /\ gapAfter < requiredAfter
    THEN Unavailable(MsgN("Insufficient travel time to next appointment", requiredAfter))
  ELSE [available |-> TRUE, reason |-> Msg("Available")]

(***************************************************************************)
(* Assignment engine                                                       *)
(***************************************************************************)
\* Sequence of the ids of S, nearest to loc first (ties in id order): $near
RECURSIVE SortByDistance(_, _, _)
SortByDistance(cgs, S, loc) ==
  IF S = {} THEN <<>>
  ELSE LET dist(i) == calculateDistance(cgs[i].loc, loc)
           m == CHOOSE i \in S :
                  \A j \in S : dist(i) < dist(j) \/ (dist(i) = dist(j) /\ i <= j)
       IN <<m>> \o SortByDistance(cgs, S \ {m}, loc)

\* .limit(50) of the candidate query
CandidateLimit == 50

\* Query.limit(n)
Limit(seq, n) == SubSeq(seq, 1, IF Len(seq) < n THEN Len(seq) ELSE n)

\* The candidate query of findBestCareGiver, before .limit
NearCareGivers(cgs, sets, careReceiver, visit, excludeCareGiverId) ==
  LET maxDistanceKm == OrDefault(sets.maxDistanceKm, 20)
  IN SortByDistance(cgs,
       {i \in DOMAIN cgs :
          /\ cgs[i].isActive
          /\ visit.requirements \subseteq cgs[i].skills
          /\ i # excludeCareGiverId
          /\ (careReceiver.genderPreference # "No Preference"
                => cgs[i].gender = careReceiver.genderPreference)
          /\ (~visit.doubleHanded => ~cgs[i].singleHandedOnly)
          /\ calculateDistance(cgs[i].loc, careReceiver.loc) <= maxDistanceKm},
       careReceiver.loc)

\* await CareGiver.find(query).limit(50)
PotentialCareGivers(cgs, sets, careReceiver, visit, excludeCareGiverId) ==
  Limit(NearCareGivers(cgs, sets, careReceiver, visit, excludeCareGiverId), CandidateLimit)

\* distance, less 10 for the preferred care giver
Score(cgs, careReceiver, i) ==
  calculateDistance(careReceiver.loc, cgs[i].loc)
    - (IF careReceiver.preferredCareGiver # NoId /\ i = careReceiver.preferredCareGiver
       THEN 10 ELSE 0)

\* First element of the stable sort by ascending score
BestScored(cgs, careReceiver, scored) ==
  scored[CHOOSE k \in DOMAIN scored :
           \A l \in DOMAIN scored :
             \/ Score(cgs, careReceiver, scored[k]) < Score(cgs, careReceiver, scored[l])
             \/ (Score(cgs, careReceiver, scored[k]) = Score(cgs, careReceiver, scored[l])
                 /\ k <= l)]

findBestCareGiver(cgs, crs, avs, apts, sets, careReceiver, visit, date, excludeCareGiverId) ==
  LET potential == PotentialCareGivers(cgs, sets, careReceiver, visit, excludeCareGiverId)
      endTime == ComputeEndTime(visit.preferredTime, visit.duration)
      IsFree(i) == isCareGiverAvailable(cgs, crs, avs, apts, sets, i, date,
                                        visit.preferredTime, endTime, careReceiver.loc).available
      scored == SelectSeq(potential, IsFree)
  IN IF Len(potential) = 0
       THEN [careGiver |-> NoId,
             reason |-> MsgN("No care givers with required skills within km",
                             OrDefault(sets.maxDistanceKm, 20))]
     ELSE IF Len(scored) = 0
       THEN [careGiver |-> NoId,
             reason |-> Msg("All care givers are unavailable or have conflicts")]
     ELSE [careGiver |-> BestScored(cgs, careReceiver, scored), reason |-> <<>>]

findSecondaryCareGiver(cgs, crs, avs, apts, sets, careReceiver, visit, date, primaryCareGiverId) ==
  findBestCareGiver(cgs, crs, avs, apts, sets, careReceiver, visit, date, primaryCareGiverId)

\* A shouldVisitOccur that leaves out weeksDiff >= 0
shouldVisitOccurBeforeStart(visit, checkDate, careReceiverCreatedAt) ==
  IF Weekday(checkDate) \notin visit.daysOfWeek THEN FALSE
  ELSE IF visit.recurrencePattern = "weekly" THEN TRUE
  ELSE LET startDate == IF visit.recurrenceStartDate # NoDate
                        THEN visit.recurrenceStartDate ELSE careReceiverCreatedAt
           weeksDiff == (checkDate - startDate) \div 7
       IN weeksDiff % OrDefault(visit.recurrenceInterval, 1) = 0

\* A shouldVisitOccur that counts weeks from the Monday of the start date's week
shouldVisitOccurCalendarWeeks(visit, checkDate, careReceiverCreatedAt) ==
  IF Weekday(checkDate) \notin visit.daysOfWeek THEN FALSE
  ELSE IF visit.recurrencePattern = "weekly" THEN TRUE
  ELSE LET startDate == IF visit.recurrenceStartDate # NoDate
                        THEN visit.recurrenceStartDate ELSE careReceiverCreatedAt
           weeksDiff == (checkDate \div 7) - (startDate \div 7)
       IN weeksDiff >= 0 /\ weeksDiff % OrDefault(visit.recurrenceInterval, 1) = 0

\* Check if visit should occur on specific date
shouldVisitOccur(visit, checkDate, careReceiverCreatedAt) ==
  IF Weekday(checkDate) \notin visit.daysOfWeek THEN FALSE
  ELSE IF visit.recurrencePattern = "weekly" THEN TRUE
  ELSE IF visit.recurrencePattern \in {"biweekly", "monthly", "custom"}
    THEN LET startDate == IF visit.recurrenceStartDate # NoDate
                          THEN visit.recurrenceStartDate ELSE careReceiverCreatedAt
             weeksDiff == (checkDate - startDate) \div 7
         IN weeksDiff >= 0 /\ weeksDiff % OrDefault(visit.recurrenceInterval, 1) = 0
  ELSE TRUE

\* Method to get visit by number
getVisit(careReceiver, visitNumber) ==
  SelectSeq(careReceiver.dailyVisits, LAMBDA v : v.visitNumber = visitNumber)

\* The care receiver's own method: check if visit should occur on a specific
\* date. The remainder of a negative weeksDiff is zero exactly when the
\* interval divides it.
methodShouldVisitOccur(careReceiver, visitNumber, checkDate) ==
  IF Len(getVisit(careReceiver, visitNumber)) = 0 THEN FALSE
  ELSE LET visit == getVisit(careReceiver, visitNumber)[1]
       IN IF Weekday(checkDate) \notin visit.daysOfWeek THEN FALSE
          ELSE IF visit.recurrencePattern = "weekly" THEN TRUE
          ELSE IF visit.recurrencePattern \in {"biweekly", "monthly", "custom"}
            THEN LET startDate == IF visit.recurrenceStartDate # NoDate
                                  THEN visit.recurrenceStartDate
                                  ELSE careReceiver.createdAt
                     weeksDiff == (checkDate - startDate) \div 7
                 IN weeksDiff % visit.recurrenceInterval = 0
          ELSE TRUE

\* Schema validation of Appointment.create
AppointmentIsValid(apt) ==
  /\ MatchesHHMM(apt.startTime)
  /\ MatchesHHMM(apt.endTime)

NewAppointment(cr, cg, scg, date, startTime, endTime, duration, visitNumber, dh, method) ==
  [careReceiver |-> cr, careGiver |-> cg, secondaryCareGiver |-> scg, date |-> date,
   startTime |-> startTime, endTime |-> endTime, duration |-> duration,
   visitNumber |-> visitNumber, doubleHanded |-> dh, status |-> "scheduled",
   invalidationReason |-> <<>>, invalidatedAt |-> NoDate, schedulingMethod |-> method]

Failure(visit, date, reason) ==
  [visitNumber |-> visit.visitNumber, date |-> date, reason |-> reason]

\* The appointment of the visit: appointmentData of scheduleForCareReceiver
VisitAppointment(crId, primaryId, secondaryId, date, visit) ==
  NewAppointment(crId, primaryId, IF visit.doubleHanded THEN secondaryId ELSE NoId,
                 date, visit.preferredTime,
                 ComputeEndTime(visit.preferredTime, visit.duration),
                 visit.duration, visit.visitNumber, visit.doubleHanded, "automatic")

\* Appointment.create and scheduled.push, or the catch branch
CreateAppointment(st, apt, visit, date) ==
  IF ~AppointmentIsValid(apt)
    THEN [st EXCEPT !.failed = Append(@, Failure(visit, date, Msg("Appointment validation failed")))]
  ELSE [st EXCEPT !.apts = (st.nextId :> apt) @@ @,
                  !.nextId = @ + 1,
                  !.scheduled = Append(@, st.nextId)]

\* The visit once both searches have answered
AssignVisit(st, crId, date, visit, primary, secondary) ==
  IF primary.careGiver = NoId
    THEN [st EXCEPT !.failed = Append(@, Failure(visit, date, primary.reason))]
  ELSE IF visit.doubleHanded /\ secondary.careGiver = NoId
    THEN [st EXCEPT !.failed = Append(@, Failure(visit, date,
             Msg("Primary CG found, but no secondary CG available: ") \o secondary.reason))]
  ELSE CreateAppointment(st, VisitAppointment(crId, primary.careGiver, secondary.careGiver,
                                              date, visit), visit, date)

\* The visit with the primary found: the secondary is searched with the
\* primary excluded
WithPrimary(cgs, crs, avs, sets, st, crId, date, visit, primary) ==
  AssignVisit(st, crId, date, visit, primary,
              findSecondaryCareGiver(cgs, crs, avs, st.apts, sets, crs[crId], visit, date,
                                     primary.careGiver))

\* The visit loop body with the primary committed although no secondary is found
ScheduleVisitCommitsPrimary(cgs, crs, avs, sets, st, crId, date, visit) ==
  LET primary == findBestCareGiver(cgs, crs, avs, st.apts, sets, crs[crId], visit, date, NoId)
  IN IF ~shouldVisitOccur(visit, date, crs[crId].createdAt) THEN st
     ELSE IF primary.careGiver = NoId
       THEN [st EXCEPT !.failed = Append(@, Failure(visit, date, primary.reason))]
     ELSE CreateAppointment(st, VisitAppointment(crId, primary.careGiver, NoId, date, visit),
                            visit, date)

\* One iteration of the visit loop of scheduleForCareReceiver.
\* st = [apts, nextId, scheduled, failed]
ScheduleVisit(cgs, crs, avs, sets, st, crId, date, visit) ==
  IF ~shouldVisitOccur(visit, date, crs[crId].createdAt) THEN st
  ELSE WithPrimary(cgs, crs, avs, sets, st, crId, date, visit,
                   findBestCareGiver(cgs, crs, avs, st.apts, sets, crs[crId], visit, date, NoId))

RECURSIVE ScheduleVisits(_, _, _, _, _, _, _, _)
ScheduleVisits(cgs, crs, avs, sets, st, crId, date, visits) ==
  IF visits = <<>> THEN st
  ELSE ScheduleVisits(cgs, crs, avs, sets,
                      ScheduleVisit(cgs, crs, avs, sets, st, crId, date, Head(visits)),
                      crId, date, Tail(visits))

\* The while loop over the days; a run that has thrown went no further
RECURSIVE ScheduleDays(_, _, _, _, _, _, _, _)
ScheduleDays(cgs, crs, avs, sets, st, crId, currentDate, endDate) ==
  IF currentDate > endDate \/ st.error # <<>> THEN st
  ELSE ScheduleDays(cgs, crs, avs, sets,
                    ScheduleVisits(cgs, crs, avs, sets, st, crId, currentDate,
                                   crs[crId].dailyVisits),
                    crId, currentDate + 1, endDate)

\* Result of one receiver: [apts, nextId, scheduled, failed, error]
scheduleForCareReceiver(cgs, crs, avs, sets, apts, nid, crId, startDate, endDate) ==
  LET st0 == [apts |-> apts, nextId |-> nid, scheduled |-> <<>>, failed |-> <<>>,
              error |-> <<>>]
  IN IF crId \notin DOMAIN crs
       THEN [st0 EXCEPT !.error = Msg("Care receiver not found")]
     ELSE IF Len(crs[crId].dailyVisits) = 0
       THEN [st0 EXCEPT !.error = Msg("Care receiver has no daily visits defined")]
     ELSE ScheduleDays(cgs, crs, avs, sets, st0, crId, startDate, endDate)

PushResultUnlessThrown(acc, id, r) ==
  [apts |-> r.apts, nextId |-> r.nextId,
   results |-> IF r.error # <<>> THEN acc.results
               ELSE Append(acc.results,
                      [careReceiverId |-> id, scheduled |-> r.scheduled,
                       failed |-> r.failed, error |-> r.error])]

\* results.push of bulkSchedule: the result of one receiver joins acc
PushResult(acc, id, r) ==
  [apts |-> r.apts, nextId |-> r.nextId,
   results |-> Append(acc.results,
      [careReceiverId |-> id,
       scheduled |-> IF r.error = <<>> THEN r.scheduled ELSE <<>>,
       failed |-> IF r.error = <<>> THEN r.failed ELSE <<>>,
       error |-> r.error])]

\* acc = [apts, nextId, results]
RECURSIVE bulkSchedule(_, _, _, _, _, _, _, _)
bulkSchedule(cgs, crs, avs, sets, acc, careReceiverIds, startDate, endDate) ==
  IF careReceiverIds = <<>> THEN acc
  ELSE bulkSchedule(cgs, crs, avs, sets,
                    PushResult(acc, Head(careReceiverIds),
                               scheduleForCareReceiver(cgs, crs, avs, sets, acc.apts,
                                                       acc.nextId, Head(careReceiverIds),
                                                       startDate, endDate)),
                    Tail(careReceiverIds), startDate, endDate)

NoOp == [op |-> "none", args |-> <<>>, results |-> <<>>]

(***************************************************************************)
(* Validator                                                               *)
(***************************************************************************)
\* timeOff.reason || "Personal"
ReasonOrPersonal(reason) == IF reason = "" THEN "Personal" ELSE reason

\* Index of the first time-off period holding the date, 0 when none
FirstTimeOff(timeOff, date) ==
  LET hits == {k \in DOMAIN timeOff :
                 date >= timeOff[k].startDate /\ date <= timeOff[k].endDate}
  IN IF hits = {} THEN 0 ELSE CHOOSE k \in hits : \A l \in hits : k <= l

\* The issues the validator finds for one appointment, in the order found
Issues(cgs, crs, apt) ==
  LET cgThere == apt.careGiver \in DOMAIN cgs
      scgThere == apt.secondaryCareGiver # NoId /\ apt.secondaryCareGiver \in DOMAIN cgs
      check1 == IF apt.careReceiver \notin DOMAIN crs
                THEN <<Msg("Care receiver no longer exists")>> ELSE <<>>
      check2 == IF ~cgThere THEN <<Msg("Care giver no longer exists")>>
                ELSE IF ~cgs[apt.careGiver].isActive
                  THEN <<Msg("Care giver is now inactive")>>
                ELSE <<>>
      to1 == FirstTimeOff(cgs[apt.careGiver].timeOff, apt.date)
      check3 == IF cgThere /\ cgs[apt.careGiver].isActive /\ to1 # 0
                THEN <<Msg("Care giver is now on time off (")
                       \o Msg(ReasonOrPersonal(cgs[apt.careGiver].timeOff[to1].reason))
                       \o Msg(")")>>
                ELSE <<>>
      to2 == FirstTimeOff(cgs[apt.secondaryCareGiver].timeOff, apt.date)
      check4 == IF apt.doubleHanded /\ scgThere
                THEN (IF ~cgs[apt.secondaryCareGiver].isActive
                      THEN <<Msg("Secondary care giver is now inactive")>> ELSE <<>>)
                     \o
                     (IF to2 # 0
                      THEN <<Msg("Secondary care giver is now on time off (")
                             \o Msg(ReasonOrPersonal(cgs[apt.secondaryCareGiver].timeOff[to2].reason))
                             \o Msg(")")>>
                      ELSE <<>>)
                ELSE IF apt.doubleHanded /\ ~scgThere
                  THEN <<Msg("Double-handed care required but no secondary care giver assigned")>>
                ELSE <<>>
  IN check1 \o check2 \o check3 \o check4

\* issues.join("; ")
RECURSIVE JoinIssues(_)
JoinIssues(issues) ==
  IF issues = <<>> THEN <<>>
  ELSE IF Len(issues) = 1 THEN Head(issues)
  ELSE Head(issues) \o Msg("; ") \o JoinIssues(Tail(issues))

ScannedStatuses == {"scheduled", "needs_reassignment"}

\* A scan that takes the appointments of the window in any status
ScannedAnyStatus(apts, startDate, endDate) ==
  {i \in DOMAIN apts : apts[i].date >= startDate /\ apts[i].date <= endDate}

Scanned(apts, startDate, endDate) ==
  {i \in DOMAIN apts :
     /\ apts[i].date >= startDate
     /\ apts[i].date <= endDate
     /\ apts[i].status \in ScannedStatuses}

\* The appointment as the validator leaves it
Validated(cgs, crs, apt, clock) ==
  LET issues == Issues(cgs, crs, apt)
  IN IF Len(issues) > 0
       THEN [apt EXCEPT !.status = "needs_reassignment",
                        !.invalidationReason = JoinIssues(issues),
                        !.invalidatedAt = clock]
     ELSE IF apt.status = "needs_reassignment"
       THEN [apt EXCEPT !.status = "scheduled",
                        !.invalidationReason = <<>>,
                        !.invalidatedAt = NoDate]
     ELSE apt

(***************************************************************************)
(* Requests                                                                *)
(***************************************************************************)
Statuses == {"scheduled", "in_progress", "completed", "cancelled", "missed",
             "needs_review", "needs_reassignment"}

CareReceiverIdLists == {<<1>>, <<1, 2>>, <<2, 1>>}

StatusInputs == {"in_progress", "cancelled"}

\* The manual requests the model submits (each on any day of the model)
ManualRequests ==
  {[careReceiver |-> 1, careGiver |-> 1, secondaryCareGiver |-> NoId,
    startTime |-> T(9, 0), endTime |-> T(10, 0), doubleHanded |-> FALSE],
   [careReceiver |-> 2, careGiver |-> 1, secondaryCareGiver |-> NoId,
    startTime |-> T(9, 30), endTime |-> T(10, 30), doubleHanded |-> FALSE],
   [careReceiver |-> 1, careGiver |-> 2, secondaryCareGiver |-> NoId,
    startTime |-> T(14, 0), endTime |-> T(15, 0), doubleHanded |-> TRUE],
   [careReceiver |-> 2, careGiver |-> 2, secondaryCareGiver |-> 2,
    startTime |-> T(16, 0), endTime |-> T(17, 0), doubleHanded |-> TRUE]}

(***************************************************************************)
(* Operations on appointments                                              *)
(***************************************************************************)
\* The appointments a generate run inserted are stored and its results returned
StoreResults(careReceiverIds, startDate, endDate, acc) ==
  /\ acc.nextId <= MaxApt + 1
  /\ appointments' = acc.apts
  /\ nextId' = acc.nextId
  /\ lastOp' = [op |-> "generate", args |-> <<careReceiverIds, startDate, endDate>>,
                results |-> acc.results]

\* POST /schedule/generate with careReceiverIds
generateSchedule(careReceiverIds, startDate, endDate) ==
  /\ startDate <= endDate
  /\ StoreResults(careReceiverIds, startDate, endDate,
                  bulkSchedule(careGivers, careReceivers, availabilities, settings,
                               [apts |-> appointments, nextId |-> nextId, results |-> <<>>],
                               careReceiverIds, startDate, endDate))
  /\ UNCHANGED <<careGivers, careReceivers, availabilities, settings, settingsCache, now, procs, nextCareGiverId>>

\* POST /schedule/appointments/manual
createManualAppointment(careReceiverId, careGiverId, secondaryCareGiverId, date, startTime, endTime, doubleHanded) ==
  LET apt == NewAppointment(careReceiverId, careGiverId, secondaryCareGiverId, date,
                            startTime, endTime, 60, 1, doubleHanded, "manual")
  IN /\ careReceiverId \in DOMAIN careReceivers
     /\ careGiverId \in DOMAIN careGivers
     /\ AppointmentIsValid(apt)
     /\ nextId <= MaxApt
     /\ appointments' = (nextId :> apt) @@ appointments
     /\ nextId' = nextId + 1
     /\ lastOp' = [op |-> "manual", args |-> <<>>, results |-> <<>>]
     /\ UNCHANGED <<careGivers, careReceivers, availabilities, settings, settingsCache, now, procs, nextCareGiverId>>

\* PATCH /schedule/appointments/:id/status
updateAppointmentStatus(id, status) ==
  /\ id \in DOMAIN appointments
  /\ status \in Statuses
  /\ appointments' = [appointments EXCEPT ![id].status = status]
  /\ lastOp' = [op |-> "status", args |-> <<>>, results |-> <<>>]
  /\ UNCHANGED <<careGivers, careReceivers, availabilities, nextId, settings, settingsCache, now, procs, nextCareGiverId>>

\* DELETE /schedule/appointments/:id
deleteAppointment(id) ==
  /\ id \in DOMAIN appointments
  /\ appointments' = [i \in DOMAIN appointments \ {id} |-> appointments[i]]
  /\ lastOp' = [op |-> "delete", args |-> <<>>, results |-> <<>>]
  /\ UNCHANGED <<careGivers, careReceivers, availabilities, nextId, settings, settingsCache, now, procs, nextCareGiverId>>

\* POST /schedule/validate
validateSchedule(startDate, endDate) ==
  /\ appointments' =
       [i \in DOMAIN appointments |->
          IF i \in Scanned(appointments, startDate, endDate)
          THEN Validated(careGivers, careReceivers, appointments[i], now)
          ELSE appointments[i]]
  /\ lastOp' = [op |-> "validate", args |-> <<startDate, endDate>>, results |-> <<>>]
  /\ UNCHANGED <<careGivers, careReceivers, availabilities, nextId, settings, settingsCache, now, procs, nextCareGiverId>>

\* Time passes
Tick ==
  /\ now < MaxNow
  /\ now' = now + 1
  /\ UNCHANGED <<careGivers, careReceivers, availabilities, appointments, nextId,
                 settings, settingsCache, lastOp, procs, nextCareGiverId>>

(***************************************************************************)
(* Availability versions                                                   *)
(***************************************************************************)
\* A version a reader takes as the current one: effectiveTo null, isActive true
IsOpen(av) == av.effectiveTo = NoDate /\ av.isActive

\* updateMany({careGiver, effectiveTo: null, isActive: true},
\*            {effectiveTo: effectiveFrom, isActive: false})
CloseOpenVersions(avs, careGiverId, effectiveFrom) ==
  [i \in DOMAIN avs |->
     IF avs[i].careGiver = careGiverId /\ IsOpen(avs[i])
     THEN [avs[i] EXCEPT !.effectiveTo = effectiveFrom, !.isActive = FALSE]
     ELSE avs[i]]

\* findOne({careGiver}).sort({version: -1}); lastVersion ? lastVersion.version + 1 : 1
NextVersionNumber(avs, careGiverId) ==
  LET mine == {avs[i].version : i \in {j \in DOMAIN avs : avs[j].careGiver = careGiverId}}
  IN IF mine = {} THEN 1 ELSE (CHOOSE v \in mine : \A w \in mine : w <= v) + 1

\* Schema validation of a weekly schedule: weekday names and HH:MM slot times
ScheduleIsValid(schedule) ==
  \A i \in DOMAIN schedule :
    /\ schedule[i].dayOfWeek \in {DayNames[k] : k \in DOMAIN DayNames}
    /\ \A k \in DOMAIN schedule[i].slots :
         /\ MatchesHHMM(schedule[i].slots[k].startTime)
         /\ MatchesHHMM(schedule[i].slots[k].endTime)

\* The document passed to Availability.create
NewVersion(careGiverId, schedule, timeOff, effectiveFrom, version) ==
  [careGiver |-> careGiverId, effectiveFrom |-> effectiveFrom, effectiveTo |-> NoDate,
   schedule |-> schedule, timeOff |-> timeOff, isActive |-> TRUE, version |-> version]

\* A createNewVersion that inserts without closing what is open
createNewVersionKeepsOpen(avs, careGiverId, newSchedule, effectiveFrom) ==
  IF ScheduleIsValid(newSchedule.schedule)
  THEN [avs |-> Append(avs, NewVersion(careGiverId, newSchedule.schedule, newSchedule.timeOff,
                                       effectiveFrom, NextVersionNumber(avs, careGiverId))),
        created |-> TRUE]
  ELSE [avs |-> avs, created |-> FALSE]

\* Availability.createNewVersion run to its end with nothing in between: the
\* collection it leaves, and whether the insert passed validation
createNewVersion(avs, careGiverId, newSchedule, effectiveFrom) ==
  LET closed == CloseOpenVersions(avs, careGiverId, effectiveFrom)
      nextVersion == NextVersionNumber(closed, careGiverId)
  IN IF ScheduleIsValid(newSchedule.schedule)
     THEN [avs |-> Append(closed, NewVersion(careGiverId, newSchedule.schedule,
                                             newSchedule.timeOff, effectiveFrom, nextVersion)),
           created |-> TRUE]
     ELSE [avs |-> closed, created |-> FALSE]

\* Request bodies of the care giver and availability routes
Holiday(startDate, endDate, reason) ==
  <<[startDate |-> startDate, endDate |-> endDate, reason |-> reason]>>

\* The schedule and time off of a version request: one accepted, and one
\* whose slot time the schema rejects
AvailabilityInputs ==
  {[schedule |-> Pattern(<<"Monday", "Tuesday">>, T(9, 0), T(17, 0)),
    timeOff |-> Holiday(1, 1, "")],
   [schedule |-> Pattern(<<"Monday">>, <<9, Colon, 0, 0>>, T(17, 0)), timeOff |-> <<>>]}

\* The availability and time off of a new care giver: none, or a schedule
CareGiverInputs ==
  {[schedule |-> <<>>, timeOff |-> <<>>],
   [schedule |-> Pattern(<<"Monday", "Tuesday">>, T(9, 0), T(17, 0)),
    timeOff |-> Holiday(1, 1, "")]}

\* effectiveFrom of a request: absent, or a given day
EffectiveFromInputs == {NoDate, 1}

\* A PUT body: the fields it carries and their values
Body(fields, isActive, availability, timeOff) ==
  [fields |-> fields, isActive |-> isActive, availability |-> availability,
   timeOff |-> timeOff]

AvailabilityBodies ==
  {Body({"availability"}, TRUE, Pattern(<<"Monday">>, T(10, 0), T(16, 0)), <<>>),
   Body({"availability", "timeOff"}, TRUE,
        Pattern(<<"Monday", "Tuesday">>, T(9, 0), T(17, 0)), <<>>)}

StatusBodies ==
  {Body({"isActive"}, FALSE, <<>>, <<>>),
   Body({"isActive"}, TRUE, <<>>, <<>>),
   Body({"timeOff"}, TRUE, <<>>, Holiday(1, 1, "")),
   Body({"timeOff"}, TRUE, <<>>, <<>>)}

\* A PUT body that carries singleHandedOnly alone
SingleHandedBody(singleHandedOnly) ==
  [fields |-> {"singleHandedOnly"}, isActive |-> TRUE, availability |-> <<>>,
   timeOff |-> <<>>, singleHandedOnly |-> singleHandedOnly]

\* PUT bodies that change who the engine may assign: a holiday set together
\* with the weekly pattern, the holiday list cleared, the single-handed flag
RosterBodies ==
  {Body({"availability", "timeOff"}, TRUE, Pattern(WorkDays, T(8, 0), T(18, 0)),
        Holiday(1, 1, "")),
   Body({"timeOff"}, TRUE, <<>>, <<>>),
   SingleHandedBody(TRUE)}

\* POST /availability/caregiver/:careGiverId/version; effectiveFrom NoDate
\* when the body has none
postAvailabilityVersion(careGiverId, schedule, timeOff, effectiveFrom) ==
  /\ careGiverId \in DOMAIN careGivers
  /\ Len(availabilities) < MaxVersions
  /\ LET from == IF effectiveFrom = NoDate THEN now ELSE effectiveFrom
         r == createNewVersion(availabilities, careGiverId,
                               [schedule |-> schedule, timeOff |-> timeOff], from)
     IN /\ availabilities' = r.avs
        /\ careGivers' = IF r.created
                         THEN [careGivers EXCEPT ![careGiverId].availability = schedule,
                                                 ![careGiverId].timeOff = timeOff]
                         ELSE careGivers
        /\ lastOp' = [op |-> "createVersion", args |-> <<careGiverId, from>>,
                      results |-> <<r.created>>]
  /\ UNCHANGED <<careReceivers, appointments, nextId, settings, settingsCache, now, procs, nextCareGiverId>>

\* PUT /availability/caregiver/:careGiverId
putAvailability(careGiverId, schedule, timeOff) ==
  /\ Len(availabilities) < MaxVersions
  /\ LET r == createNewVersion(availabilities, careGiverId,
                               [schedule |-> schedule, timeOff |-> timeOff], now)
     IN /\ availabilities' = r.avs
        /\ careGivers' = IF r.created /\ careGiverId \in DOMAIN careGivers
                         THEN [careGivers EXCEPT ![careGiverId].availability = schedule,
                                                 ![careGiverId].timeOff = timeOff]
                         ELSE careGivers
        /\ lastOp' = [op |-> "createVersion", args |-> <<careGiverId, now>>,
                      results |-> <<r.created>>]
  /\ UNCHANGED <<careReceivers, appointments, nextId, settings, settingsCache, now, procs, nextCareGiverId>>

(***************************************************************************)
(* Operations on care givers and care receivers                            *)
(***************************************************************************)
\* POST /caregivers
createCareGiver(availability, timeOff) ==
  /\ nextCareGiverId <= MaxCareGivers
  /\ ScheduleIsValid(availability)
  /\ Len(availability) > 0 => Len(availabilities) < MaxVersions
  /\ careGivers' =
       (nextCareGiverId :>
          [isActive |-> TRUE, gender |-> "Female", skills |-> {"personal_care"},
           singleHandedOnly |-> FALSE, loc |-> 0,
           availability |-> availability, timeOff |-> timeOff]) @@ careGivers
  /\ availabilities' =
       IF Len(availability) > 0
       THEN Append(availabilities, NewVersion(nextCareGiverId, availability, timeOff, now, 1))
       ELSE availabilities
  /\ nextCareGiverId' = nextCareGiverId + 1
  /\ lastOp' = [op |-> "createCareGiver", args |-> <<>>, results |-> <<>>]
  /\ UNCHANGED <<careReceivers, appointments, nextId, settings, settingsCache, now, procs>>

\* PUT /caregivers/:id
updateCareGiver(id, body) ==
  LET existing == {i \in DOMAIN availabilities :
                     availabilities[i].careGiver = id /\ availabilities[i].isActive}
      first == CHOOSE i \in existing : \A j \in existing : i <= j
      sync == "availability" \in body.fields
  IN /\ id \in DOMAIN careGivers
     /\ sync => ScheduleIsValid(body.availability)
     /\ (sync /\ existing = {}) => Len(availabilities) < MaxVersions
     /\ careGivers' =
          [careGivers EXCEPT
             ![id].isActive = IF "isActive" \in body.fields THEN body.isActive ELSE @,
             ![id].singleHandedOnly = IF "singleHandedOnly" \in body.fields
                                      THEN body.singleHandedOnly ELSE @,
             ![id].availability = IF sync THEN body.availability ELSE @,
             ![id].timeOff = IF "timeOff" \in body.fields THEN body.timeOff ELSE @]
     /\ availabilities' =
          IF ~sync THEN availabilities
          ELSE IF existing # {}
            THEN [availabilities EXCEPT
                    ![first].schedule = body.availability,
                    ![first].timeOff = IF "timeOff" \in body.fields THEN body.timeOff ELSE @]
          ELSE Append(availabilities,
                      NewVersion(id, body.availability,
                                 IF "timeOff" \in body.fields THEN body.timeOff ELSE <<>>,
                                 now, 1))
     /\ lastOp' = [op |-> "updateCareGiver", args |-> <<>>, results |-> <<>>]
     /\ UNCHANGED <<careReceivers, appointments, nextId, settings, settingsCache, now, procs, nextCareGiverId>>

RECURSIVE WithoutCareGiver(_, _)
WithoutCareGiver(avs, id) ==
  IF avs = <<>> THEN <<>>
  ELSE IF Head(avs).careGiver = id THEN WithoutCareGiver(Tail(avs), id)
  ELSE <<Head(avs)>> \o WithoutCareGiver(Tail(avs), id)

\* DELETE /caregivers/:id
deleteCareGiver(id) ==
  /\ id \in DOMAIN careGivers
  /\ careGivers' = [i \in DOMAIN careGivers \ {id} |-> careGivers[i]]
  /\ availabilities' = WithoutCareGiver(availabilities, id)
  /\ lastOp' = [op |-> "deleteCareGiver", args |-> <<>>, results |-> <<>>]
  /\ UNCHANGED <<careReceivers, appointments, nextId, settings, settingsCache, now, procs, nextCareGiverId>>

\* PUT /carereceivers/:id with isActive in the body
updateCareReceiver(id, isActive) ==
  /\ id \in DOMAIN careReceivers
  /\ careReceivers' = [careReceivers EXCEPT ![id].isActive = isActive]
  /\ lastOp' = [op |-> "updateCareReceiver", args |-> <<>>, results |-> <<>>]
  /\ UNCHANGED <<careGivers, availabilities, appointments, nextId, settings, settingsCache, now, procs,
                 nextCareGiverId>>

\* DELETE /carereceivers/:id
deleteCareReceiver(id) ==
  /\ id \in DOMAIN careReceivers
  /\ ~\E i \in DOMAIN appointments :
        appointments[i].careReceiver = id /\ appointments[i].status \in ActiveStatuses
  /\ careReceivers' = [i \in DOMAIN careReceivers \ {id} |-> careReceivers[i]]
  /\ lastOp' = [op |-> "deleteCareReceiver", args |-> <<>>, results |-> <<>>]
  /\ UNCHANGED <<careGivers, availabilities, appointments, nextId, settings, settingsCache, now, procs,
                 nextCareGiverId>>

\* Field validators of a dailyVisits entry
VisitIsValid(visit) ==
  /\ visit.visitNumber >= 1
  /\ visit.visitNumber <= 10
  /\ MatchesHHMM(visit.preferredTime)
  /\ visit.duration >= 15
  /\ visit.duration <= 240
  /\ visit.daysOfWeek # {}
  /\ visit.recurrenceInterval >= 1
  /\ visit.recurrenceInterval <= 52

\* The controllers' own check: visit.duration < 15 || visit.duration > 120
DurationsAccepted(dailyVisits) ==
  \A i \in DOMAIN dailyVisits : dailyVisits[i].duration >= 15 /\ dailyVisits[i].duration <= 120

\* dailyVisits.sort((a, b) => a.visitNumber - b.visitNumber), a stable sort
RECURSIVE SortByVisitNumber(_)
SortByVisitNumber(visits) ==
  IF visits = <<>> THEN <<>>
  ELSE LET m == CHOOSE i \in DOMAIN visits :
                  \A j \in DOMAIN visits :
                    \/ visits[i].visitNumber < visits[j].visitNumber
                    \/ (visits[i].visitNumber = visits[j].visitNumber /\ i <= j)
       IN <<visits[m]>> \o SortByVisitNumber(SubSeq(visits, 1, m - 1)
                                              \o SubSeq(visits, m + 1, Len(visits)))

\* The second pre-save hook: no duplicate numbers, and the i-th is i
VisitsAreSequential(visits) ==
  /\ Cardinality({visits[i].visitNumber : i \in DOMAIN visits}) = Len(visits)
  /\ \A i \in DOMAIN visits : visits[i].visitNumber = i

\* POST /carereceivers: CareReceiver.create runs the field validators and
\* then the pre-save hooks.  Ids are issued in order (no receiver is deleted
\* where this is used).
createCareReceiver(dailyVisits) ==
  LET id == Cardinality(DOMAIN careReceivers) + 1
      accepted == /\ DurationsAccepted(dailyVisits)
                  /\ \A i \in DOMAIN dailyVisits : VisitIsValid(dailyVisits[i])
                  /\ VisitsAreSequential(SortByVisitNumber(dailyVisits))
  IN /\ id <= MaxCareReceivers
     /\ careReceivers' =
          IF accepted
          THEN (id :> [isActive |-> TRUE, genderPreference |-> "No Preference",
                       preferredCareGiver |-> NoId, loc |-> 2, createdAt |-> now,
                       dailyVisits |-> SortByVisitNumber(dailyVisits)]) @@ careReceivers
          ELSE careReceivers
     /\ lastOp' = [op |-> "createCareReceiver", args |-> <<dailyVisits>>,
                   results |-> <<accepted>>]
     /\ UNCHANGED <<careGivers, availabilities, appointments, nextId, settings, settingsCache, now, procs,
                    nextCareGiverId>>

\* PUT /carereceivers/:id with dailyVisits in the body: findByIdAndUpdate
\* with runValidators runs the field validators and no save hook
updateCareReceiverVisits(id, dailyVisits) ==
  LET accepted == /\ DurationsAccepted(dailyVisits)
                  /\ \A i \in DOMAIN dailyVisits : VisitIsValid(dailyVisits[i])
  IN /\ id \in DOMAIN careReceivers
     /\ careReceivers' = IF accepted
                          THEN [careReceivers EXCEPT ![id].dailyVisits = dailyVisits]
                          ELSE careReceivers
     /\ lastOp' = [op |-> "updateCareReceiver", args |-> <<id, dailyVisits>>,
                   results |-> <<accepted>>]
     /\ UNCHANGED <<careGivers, availabilities, appointments, nextId, settings, settingsCache, now, procs,
                    nextCareGiverId>>

\* The dailyVisits of a request: given by their visit numbers
DailyVisitsOf(numbers) ==
  [i \in DOMAIN numbers |-> Visit(numbers[i], T(9, 30), 60, FALSE)]

VisitNumberLists == {<<1>>, <<1, 2>>, <<2, 1>>, <<1, 1>>, <<1, 3>>, <<0>>}

\* The dailyVisits bodies the model submits
DailyVisitsInputs == {DailyVisitsOf(numbers) : numbers \in VisitNumberLists}

(***************************************************************************)
(* createNewVersion as concurrent calls: each call is three awaited        *)
(* persistence steps, and steps of different calls interleave              *)
(***************************************************************************)
Procs == {1, 2}

IdleProc ==
  [pc |-> "idle", careGiver |-> NoId, effectiveFrom |-> NoDate, schedule |-> <<>>,
   timeOff |-> <<>>, nextVersion |-> NoId]

IdleProcs == [p \in Procs |-> IdleProc]

InFlight == Cardinality({q \in Procs : procs[q].pc # "idle"})

\* await this.updateMany(...)
CallCloses(p, careGiverId, schedule, timeOff, effectiveFrom) ==
  /\ procs[p].pc = "idle"
  /\ Len(availabilities) + InFlight < MaxVersions
  /\ availabilities' = CloseOpenVersions(availabilities, careGiverId, effectiveFrom)
  /\ procs' = [procs EXCEPT ![p] = [pc |-> "closed", careGiver |-> careGiverId,
                                    effectiveFrom |-> effectiveFrom, schedule |-> schedule,
                                    timeOff |-> timeOff, nextVersion |-> NoId]]
  /\ lastOp' = [op |-> "createVersion", args |-> <<careGiverId, effectiveFrom>>,
                results |-> <<>>]
  /\ UNCHANGED <<careGivers, careReceivers, appointments, nextId, settings, settingsCache, now,
                 nextCareGiverId>>

\* await this.findOne({careGiver}).sort({version: -1})
CallReadsLastVersion(p) ==
  /\ procs[p].pc = "closed"
  /\ procs' = [procs EXCEPT
                 ![p].pc = "read",
                 ![p].nextVersion = NextVersionNumber(availabilities, procs[p].careGiver)]
  /\ UNCHANGED <<careGivers, careReceivers, availabilities, appointments, nextId, settings, settingsCache,
                 now, lastOp, nextCareGiverId>>

\* await this.create(...)
CallInserts(p) ==
  /\ procs[p].pc = "read"
  /\ availabilities' =
       IF ScheduleIsValid(procs[p].schedule)
       THEN Append(availabilities,
                   NewVersion(procs[p].careGiver, procs[p].schedule, procs[p].timeOff,
                              procs[p].effectiveFrom, procs[p].nextVersion))
       ELSE availabilities
  /\ procs' = [procs EXCEPT ![p] = IdleProc]
  /\ UNCHANGED <<careGivers, careReceivers, appointments, nextId, settings, settingsCache, now, lastOp,
                 nextCareGiverId>>

(***************************************************************************)
(* POST /schedule/generate as concurrent runs: a run awaits the searches   *)
(* of a visit and then Appointment.create, and steps of different runs     *)
(* interleave.  The response body of a run is left out.                    *)
(***************************************************************************)
\* A run about to search for the visit at (Head(ids), date, visitIndex)
RunAt(ids, startDate, endDate, date, visitIndex) ==
  [pc |-> "search", ids |-> ids, startDate |-> startDate, endDate |-> endDate,
   date |-> date, visitIndex |-> visitIndex, primary |-> NoId, secondary |-> NoId,
   seen |-> {}]

\* The loops of scheduleForCareReceiver and bulkSchedule move on by one visit
NextVisit(run) ==
  IF run.visitIndex < Len(careReceivers[Head(run.ids)].dailyVisits)
    THEN RunAt(run.ids, run.startDate, run.endDate, run.date, run.visitIndex + 1)
  ELSE IF run.date < run.endDate
    THEN RunAt(run.ids, run.startDate, run.endDate, run.date + 1, 1)
  ELSE IF Len(run.ids) > 1
    THEN RunAt(Tail(run.ids), run.startDate, run.endDate, run.startDate, 1)
  ELSE IdleProc

\* The run with both care givers found, before Appointment.create
Found(run, primaryId, secondaryId, seen) ==
  [run EXCEPT !.pc = "create", !.primary = primaryId, !.secondary = secondaryId,
              !.seen = seen]

\* The request arrives
RunStarts(p, careReceiverIds, startDate, endDate) ==
  /\ procs[p].pc = "idle"
  /\ startDate <= endDate
  /\ nextId <= MaxApt
  /\ procs' = [procs EXCEPT ![p] = RunAt(careReceiverIds, startDate, endDate, startDate, 1)]
  /\ UNCHANGED <<careGivers, careReceivers, availabilities, appointments, nextId, settings, settingsCache,
                 now, lastOp, nextCareGiverId>>

\* await findBestCareGiver(...) and await findSecondaryCareGiver(...)
RunSearches(p) ==
  LET run == procs[p]
      careReceiver == careReceivers[Head(run.ids)]
      visit == careReceiver.dailyVisits[run.visitIndex]
      primary == findBestCareGiver(careGivers, careReceivers, availabilities, appointments,
                                   settings, careReceiver, visit, run.date, NoId)
      secondary == findSecondaryCareGiver(careGivers, careReceivers, availabilities,
                                          appointments, settings, careReceiver, visit,
                                          run.date, primary.careGiver)
  IN /\ run.pc = "search"
     /\ procs' = [procs EXCEPT ![p] =
          IF ~shouldVisitOccur(visit, run.date, careReceiver.createdAt) THEN NextVisit(run)
          ELSE IF primary.careGiver = NoId THEN NextVisit(run)
          ELSE IF visit.doubleHanded /\ secondary.careGiver = NoId THEN NextVisit(run)
          ELSE Found(run, primary.careGiver,
                     IF visit.doubleHanded THEN secondary.careGiver ELSE NoId,
                     DOMAIN appointments)]
     /\ UNCHANGED <<careGivers, careReceivers, availabilities, appointments, nextId,
                    settings, settingsCache, now, lastOp, nextCareGiverId>>

\* await Appointment.create(appointmentData)
RunCreates(p) ==
  LET run == procs[p]
      visit == careReceivers[Head(run.ids)].dailyVisits[run.visitIndex]
      apt == VisitAppointment(Head(run.ids), run.primary, run.secondary, run.date, visit)
  IN /\ run.pc = "create"
     /\ nextId <= MaxApt
     /\ IF AppointmentIsValid(apt)
          THEN /\ appointments' = (nextId :> apt) @@ appointments
               /\ nextId' = nextId + 1
          ELSE UNCHANGED <<appointments, nextId>>
     /\ procs' = [procs EXCEPT ![p] = NextVisit(run)]
     /\ UNCHANGED <<careGivers, careReceivers, availabilities, settings, settingsCache, now, lastOp,
                    nextCareGiverId>>

InitEntities ==
  /\ careGivers = InitialCareGivers
  /\ careReceivers = InitialCareReceivers
  /\ availabilities = InitialAvailabilities
  /\ settings \in InitialSettings
  /\ settingsCache = NoCache
  /\ now = 0
  /\ lastOp = NoOp
  /\ procs = IdleProcs
  /\ nextCareGiverId = Len(InitialAvailabilities) + 1

Init ==
  /\ InitEntities
  /\ appointments = <<>>
  /\ nextId = 1

\* The database before any request
InitEmpty ==
  /\ careGivers = <<>>
  /\ careReceivers = <<>>
  /\ availabilities = <<>>
  /\ appointments = <<>>
  /\ nextId = 1
  /\ settings = DefaultSettings
  /\ settingsCache = NoCache
  /\ now = 0
  /\ lastOp = NoOp
  /\ procs = IdleProcs
  /\ nextCareGiverId = 1

Generate ==
  \E ids \in CareReceiverIdLists, s \in Days, e \in Days : generateSchedule(ids, s, e)

CreateManual ==
  \E r \in ManualRequests, d \in Days :
    createManualAppointment(r.careReceiver, r.careGiver, r.secondaryCareGiver, d,
                            r.startTime, r.endTime, r.doubleHanded)

UpdateStatus ==
  \E id \in DOMAIN appointments, st \in StatusInputs : updateAppointmentStatus(id, st)

DeleteApt == \E id \in DOMAIN appointments : deleteAppointment(id)

Validate == \E s \in Days, e \in Days : validateSchedule(s, e)

Next == Generate \/ CreateManual \/ UpdateStatus \/ DeleteApt \/ Validate

\* Every operation on appointments, over the fixed roster
Spec == Init /\ [][Next]_vars

NextEngine == Generate \/ UpdateStatus \/ DeleteApt

\* The assignment engine alone: appointments come from generate runs only
SpecEngine == Init /\ [][NextEngine]_vars

\* The appointments and the id counter are those of acc
ScheduleIs(acc) ==
  /\ appointments = acc.apts
  /\ nextId = acc.nextId

\* The schedule as a generate run over the first day leaves it
InitScheduled ==
  /\ InitEntities
  /\ ScheduleIs(bulkSchedule(careGivers, careReceivers, availabilities, settings,
                             [apts |-> <<>>, nextId |-> 1, results |-> <<>>],
                             <<1, 2>>, 1, 1))

UpdateCareGiverStatus ==
  \E id \in DOMAIN careGivers, body \in StatusBodies : updateCareGiver(id, body)

DeleteCareGiver == \E id \in DOMAIN careGivers : deleteCareGiver(id)

UpdateCareReceiver ==
  \E id \in DOMAIN careReceivers, isActive \in BOOLEAN : updateCareReceiver(id, isActive)

DeleteCareReceiver == \E id \in DOMAIN careReceivers : deleteCareReceiver(id)

NextValidator ==
  \/ Validate
  \/ Tick
  \/ UpdateCareGiverStatus
  \/ DeleteCareGiver
  \/ UpdateCareReceiver
  \/ DeleteCareReceiver

\* The validator over a schedule whose care givers and care receivers change
SpecValidator == InitScheduled /\ [][NextValidator]_vars

CreateCareGiver ==
  \E a \in CareGiverInputs : createCareGiver(a.schedule, a.timeOff)

UpdateCareGiverAvailability ==
  \E id \in DOMAIN careGivers, body \in AvailabilityBodies : updateCareGiver(id, body)

PostAvailabilityVersion ==
  \E id \in DOMAIN careGivers, a \in AvailabilityInputs, from \in EffectiveFromInputs :
    postAvailabilityVersion(id, a.schedule, a.timeOff, from)

\* The route does not look the care giver up: any id ever issued is accepted
PutAvailability ==
  \E id \in 1..(nextCareGiverId - 1), a \in AvailabilityInputs :
    putAvailability(id, a.schedule, a.timeOff)

NextAvail ==
  \/ CreateCareGiver
  \/ UpdateCareGiverAvailability
  \/ PostAvailabilityVersion
  \/ PutAvailability
  \/ DeleteCareGiver

\* The availability history under requests served one at a time
SpecAvail == InitEmpty /\ [][NextAvail]_vars

StartCall ==
  \E p \in Procs, id \in DOMAIN careGivers, a \in AvailabilityInputs :
    CallCloses(p, id, a.schedule, a.timeOff, now)

ReadLastVersion == \E p \in Procs : CallReadsLastVersion(p)

Insert == \E p \in Procs : CallInserts(p)

NextAvailConc == CreateCareGiver \/ StartCall \/ ReadLastVersion \/ Insert \/ Tick

\* createNewVersion calls whose persistence steps interleave
SpecAvailConc == InitEmpty /\ [][NextAvailConc]_vars

UpdateRoster ==
  \E id \in DOMAIN careGivers, body \in RosterBodies : updateCareGiver(id, body)

NextRoster ==
  \/ Generate
  \/ UpdateRoster
  \/ PutAvailability
  \/ DeleteCareGiver

\* The assignment engine over a roster whose care givers and availability
\* versions change between runs
SpecRoster == Init /\ [][NextRoster]_vars

CreateCareReceiver ==
  \E dailyVisits \in DailyVisitsInputs : createCareReceiver(dailyVisits)

UpdateCareReceiverVisits ==
  \E id \in DOMAIN careReceivers, dailyVisits \in DailyVisitsInputs :
    updateCareReceiverVisits(id, dailyVisits)

NextReceivers == CreateCareReceiver \/ UpdateCareReceiverVisits

\* Care receivers created and their visit templates rewritten
SpecReceivers == Init /\ [][NextReceivers]_vars

\* A visit template with the given days and recurrence
Recurring(days, pattern, interval, startDate) ==
  [Visit(1, T(10, 0), 120, TRUE) EXCEPT !.daysOfWeek = days,
                                        !.recurrencePattern = pattern,
                                        !.recurrenceInterval = interval,
                                        !.recurrenceStartDate = startDate]

\* Day 0 is Monday 2025-12-29, so 2025-12-30 is day 1 and 2026-02-01 is day 34.
\* The first template is the seeded "every other Monday" visit.
RecurrenceTemplates ==
  {Recurring({"Monday"}, "biweekly", 2, 1),
   Recurring({"Monday"}, "biweekly", 2, 16),
   Recurring({"Tuesday", "Friday"}, "custom", 3, NoDate),
   Recurring({"Monday", "Thursday"}, "monthly", 4, 9),
   Recurring({"Wednesday", "Sunday"}, "weekly", 2, 9)}

CreatedAtInputs == {0, 10}

\* A roster of one care receiver with one template, and nobody to assign
RecurrenceRosters ==
  {1 :> [isActive |-> TRUE, genderPreference |-> "Male", preferredCareGiver |-> NoId,
         loc |-> 1, createdAt |-> c, dailyVisits |-> <<v>>] :
     v \in RecurrenceTemplates, c \in CreatedAtInputs}

\* A generate request for the care receiver over a window, not yet served
WindowRequests ==
  {[op |-> "request", args |-> <<<<1>>, s, e>>, results |-> <<>>] :
     s \in 0..MaxWindowDay, e \in 0..MaxWindowDay}

InitRecurrence ==
  /\ careGivers = <<>>
  /\ careReceivers \in RecurrenceRosters
  /\ availabilities = <<>>
  /\ appointments = <<>>
  /\ nextId = 1
  /\ settings = DefaultSettings
  /\ settingsCache = NoCache
  /\ now = 0
  /\ lastOp \in WindowRequests
  /\ procs = IdleProcs
  /\ nextCareGiverId = 1

\* The request is served
ExpandWindow ==
  /\ lastOp.op = "request"
  /\ generateSchedule(lastOp.args[1], lastOp.args[2], lastOp.args[3])

\* One generate run for each template and window
SpecRecurrence == InitRecurrence /\ [][ExpandWindow]_vars

\* A question about one visit of the care receiver on one date, not yet answered
OccurrenceRequests ==
  {[op |-> "request", args |-> <<visitNumber, date>>, results |-> <<>>] :
     visitNumber \in 1..2, date \in 0..MaxWindowDay}

InitOccurrence ==
  /\ careGivers = <<>>
  /\ careReceivers \in RecurrenceRosters
  /\ availabilities = <<>>
  /\ appointments = <<>>
  /\ nextId = 1
  /\ settings = DefaultSettings
  /\ settingsCache = NoCache
  /\ now = 0
  /\ lastOp \in OccurrenceRequests
  /\ procs = IdleProcs
  /\ nextCareGiverId = 1

\* The care receiver's method and the engine's function answer the question;
\* the engine is asked about the visits the care receiver has
AskBoth ==
  /\ lastOp.op = "request"
  /\ LET careReceiver == careReceivers[1]
         visits == getVisit(careReceiver, lastOp.args[1])
     IN lastOp' = [op |-> "shouldVisitOccur", args |-> lastOp.args,
                   results |->
                     <<methodShouldVisitOccur(careReceiver, lastOp.args[1], lastOp.args[2]),
                       /\ Len(visits) > 0
                       /\ shouldVisitOccur(visits[1], lastOp.args[2], careReceiver.createdAt)>>]
  /\ UNCHANGED <<careGivers, careReceivers, availabilities, appointments, nextId,
                 settings, settingsCache, now, procs, nextCareGiverId>>

\* Both occurrence checks for each template and date
SpecOccurrence == InitOccurrence /\ [][AskBoth]_vars

\* GET /schedule/unscheduled: for each active care receiver with visits, each
\* date of the window and each visit, the (care receiver, date, visit number)
\* that no appointment of the care receiver in the window has
getUnscheduled(crs, apts, start, end) ==
  {<<id, date, crs[id].dailyVisits[k].visitNumber>> :
     <<id, date, k>> \in
       {x \in (DOMAIN crs) \X (start..end) \X (1..2) :
          /\ crs[x[1]].isActive
          /\ x[3] \in DOMAIN crs[x[1]].dailyVisits
          /\ ~\E i \in DOMAIN apts :
                /\ apts[i].careReceiver = x[1]
                /\ apts[i].date >= start
                /\ apts[i].date <= end
                /\ apts[i].date = x[2]
                /\ apts[i].visitNumber = crs[x[1]].dailyVisits[x[3]].visitNumber}}

\* One care receiver with one template, active or not
UnscheduledRosters ==
  RecurrenceRosters \cup {1 :> [roster[1] EXCEPT !.isActive = FALSE] : roster \in RecurrenceRosters}

\* No appointment, or one for visit 1 of the care receiver on a Monday
UnscheduledSchedules ==
  {<<>>} \cup {1 :> NewAppointment(1, 1, NoId, date, T(10, 0), T(12, 0), 120, 1, FALSE, "manual") :
                 date \in {0, 7}}

\* A listing asked for a window, not yet served
ListingRequests ==
  {[op |-> "request", args |-> <<s, e>>, results |-> <<>>] :
     s \in 0..MaxDay, e \in 0..MaxWindowDay}

InitUnscheduled ==
  /\ careGivers = <<>>
  /\ careReceivers \in UnscheduledRosters
  /\ availabilities = <<>>
  /\ appointments \in UnscheduledSchedules
  /\ nextId = 2
  /\ settings = DefaultSettings
  /\ settingsCache = NoCache
  /\ now = 0
  /\ lastOp \in ListingRequests
  /\ procs = IdleProcs
  /\ nextCareGiverId = 1

\* The listing is served
ListUnscheduled ==
  /\ lastOp.op = "request"
  /\ lastOp' = [op |-> "getUnscheduled", args |-> lastOp.args,
                results |-> <<getUnscheduled(careReceivers, appointments,
                                             lastOp.args[1], lastOp.args[2])>>]
  /\ UNCHANGED <<careGivers, careReceivers, availabilities, appointments, nextId,
                 settings, settingsCache, now, procs, nextCareGiverId>>

\* One listing for each roster, schedule and window
SpecUnscheduled == InitUnscheduled /\ [][ListUnscheduled]_vars

\* Care receivers 5 km apart (10 minutes by the estimate), so that with the
\* default buffer of 15 the required gap between them is 25 minutes
TravelReceivers ==
  1 :> [isActive |-> TRUE, genderPreference |-> "No Preference", preferredCareGiver |-> NoId,
        loc |-> 1, createdAt |-> 0, dailyVisits |-> <<Visit(1, T(10, 0), 30, FALSE)>>]
  @@
  2 :> [isActive |-> TRUE, genderPreference |-> "No Preference", preferredCareGiver |-> NoId,
        loc |-> 6, createdAt |-> 0, dailyVisits |-> <<Visit(1, T(9, 0), 60, FALSE)>>]

\* An appointment of care giver 1 on day 1
Booked(careReceiverId, startTime, endTime) ==
  NewAppointment(careReceiverId, 1, NoId, 1, startTime, endTime, 60, 1, FALSE, "manual")

\* The day of care giver 1 before the check: an appointment before, one
\* after, both, one whose care receiver is gone, and two of which one lies
\* within the other
TravelSchedules ==
  {1 :> Booked(2, T(9, 0), T(10, 0)),
   1 :> Booked(2, T(12, 0), T(13, 0)),
   1 :> Booked(2, T(9, 0), T(10, 0)) @@ 2 :> Booked(2, T(12, 0), T(13, 0)),
   1 :> Booked(3, T(9, 0), T(10, 0)),
   1 :> Booked(2, T(8, 0), T(10, 0)) @@ 2 :> Booked(1, T(8, 30), T(9, 0))}

\* Start times from 10:00 to 11:30 in steps of 5 minutes
CandidateStartTimes == {T(10 + (m \div 60), m % 60) : m \in {5 * k : k \in 0..18}}

\* A feasibility check asked for care giver 1 on day 1, for a 30 minute visit
\* to care receiver 1, not yet answered
TravelRequests ==
  {[op |-> "request", args |-> <<1, 1, t, ComputeEndTime(t, 30), TravelReceivers[1].loc>>,
    results |-> <<>>] : t \in CandidateStartTimes}

InitTravel ==
  /\ careGivers = InitialCareGivers
  /\ careReceivers = TravelReceivers
  /\ availabilities = InitialAvailabilities
  /\ appointments \in TravelSchedules
  /\ nextId = 3
  /\ settings = DefaultSettings
  /\ settingsCache = NoCache
  /\ now = 0
  /\ lastOp \in TravelRequests
  /\ procs = IdleProcs
  /\ nextCareGiverId = Len(InitialAvailabilities) + 1

\* The check is answered
CheckCandidate ==
  /\ lastOp.op = "request"
  /\ lastOp' = [op |-> "check", args |-> lastOp.args,
                results |-> <<isCareGiverAvailable(careGivers, careReceivers, availabilities,
                                                   appointments, settings, lastOp.args[1],
                                                   lastOp.args[2], lastOp.args[3],
                                                   lastOp.args[4], lastOp.args[5])>>]
  /\ UNCHANGED <<careGivers, careReceivers, availabilities, appointments, nextId, settings, settingsCache,
                 now, procs, nextCareGiverId>>

\* isCareGiverAvailable on one candidate for each schedule and start time
SpecTravel == InitTravel /\ [][CheckCandidate]_vars

StartRun ==
  \E p \in Procs, ids \in CareReceiverIdLists, s \in Days, e \in Days : RunStarts(p, ids, s, e)

Search == \E p \in Procs : RunSearches(p)

Create == \E p \in Procs : RunCreates(p)

NextRuns == StartRun \/ Search \/ Create

\* Generate runs of two requests in flight at once
SpecRuns == Init /\ [][NextRuns]_vars

\* Care giver 1 as usual, inactive, on time off on day 1, both, and absent
OrderRosters ==
  {InitialCareGivers,
   [InitialCareGivers EXCEPT ![1].isActive = FALSE],
   [InitialCareGivers EXCEPT ![1].timeOff = Holiday(1, 1, "")],
   [InitialCareGivers EXCEPT ![1].isActive = FALSE, ![1].timeOff = Holiday(1, 1, "")],
   <<>>}

\* Days of care giver 1 on which more than one check can fail at once
OrderSchedules ==
  {<<>>,
   1 :> Booked(2, T(9, 0), T(10, 0)),
   1 :> Booked(2, T(9, 0), T(10, 0)) @@ 2 :> Booked(2, T(12, 0), T(13, 0)),
   1 :> Booked(2, T(9, 0), T(10, 0)) @@ 2 :> Booked(2, T(10, 20), T(11, 0)),
   1 :> Booked(2, T(9, 0), T(10, 0)) @@ 2 :> Booked(2, T(11, 0), T(12, 0)),
   1 :> Booked(3, T(9, 0), T(10, 0))}

OrderStartTimes == {T(9, 30), T(10, 10), T(10, 15), T(10, 30), T(11, 30), T(17, 45)}

OrderSettings == {[DefaultSettings EXCEPT !.maxAppointmentsPerDay = c] : c \in {1, 8}}

\* A feasibility check asked for care giver 1, on Monday (day 0) or Tuesday
\* (day 1), for a 30 minute visit to care receiver 1
OrderRequests ==
  {[op |-> "request", args |-> <<1, d, t, ComputeEndTime(t, 30), TravelReceivers[1].loc>>,
    results |-> <<>>] : d \in {0, 1}, t \in OrderStartTimes}

InitOrder ==
  /\ careGivers \in OrderRosters
  /\ careReceivers = TravelReceivers
  /\ availabilities = InitialAvailabilities
  /\ appointments \in OrderSchedules
  /\ nextId = 3
  /\ settings \in OrderSettings
  /\ settingsCache = NoCache
  /\ now = 0
  /\ lastOp \in OrderRequests
  /\ procs = IdleProcs
  /\ nextCareGiverId = Len(InitialAvailabilities) + 1

\* isCareGiverAvailable on candidates that fail several checks
SpecOrder == InitOrder /\ [][CheckCandidate]_vars

\* One care giver more than the candidate query returns: all free all day, the
\* last one farther from care receiver 1 than the others
LargeRoster ==
  [i \in 1..(CandidateLimit + 1) |->
     [InitialCareGivers[1] EXCEPT !.loc = IF i <= CandidateLimit THEN 2 ELSE 6]]

\* Care receiver 1 with each care giver, or none, as the preferred one
PreferringReceivers ==
  {1 :> [InitialCareReceivers[1] EXCEPT !.preferredCareGiver = g] :
     g \in 0..(CandidateLimit + 1)}

\* A search asked for a visit of care receiver 1 on day 1, with no care giver
\* or care giver 1 excluded
BestRequests ==
  {[op |-> "request", args |-> <<1, v, 1, x>>, results |-> <<>>] : v \in {1, 2}, x \in {NoId, 1}}

InitBest ==
  /\ careGivers = LargeRoster
  /\ careReceivers \in PreferringReceivers
  /\ availabilities = <<>>
  /\ appointments = <<>>
  /\ nextId = 1
  /\ settings = DefaultSettings
  /\ settingsCache = NoCache
  /\ now = 0
  /\ lastOp \in BestRequests
  /\ procs = IdleProcs
  /\ nextCareGiverId = CandidateLimit + 2

\* The search is answered
FindBest ==
  /\ lastOp.op = "request"
  /\ lastOp' = [op |-> "findBest", args |-> lastOp.args,
                results |-> <<findBestCareGiver(careGivers, careReceivers, availabilities,
                                                appointments, settings,
                                                careReceivers[lastOp.args[1]],
                                                careReceivers[lastOp.args[1]].dailyVisits[lastOp.args[2]],
                                                lastOp.args[3], lastOp.args[4])>>]
  /\ UNCHANGED <<careGivers, careReceivers, availabilities, appointments, nextId, settings, settingsCache,
                 now, procs, nextCareGiverId>>

\* findBestCareGiver over a roster larger than the candidate query's limit
SpecBest == InitBest /\ [][FindBest]_vars

NextTemplates == Generate \/ UpdateCareReceiverVisits

\* Generate runs over care receivers whose visits are edited between runs
SpecTemplates == Init /\ [][NextTemplates]_vars

\* A schedule over two days: a single-handed visit on day 1 and a
\* double-handed one on day 2
TwoDaySchedule ==
  1 :> NewAppointment(1, 1, NoId, 1, T(9, 30), T(10, 30), 60, 1, FALSE, "automatic")
  @@
  2 :> NewAppointment(2, 1, 2, 2, T(14, 30), T(15, 30), 60, 1, TRUE, "automatic")

InitTwoDays ==
  /\ InitEntities
  /\ appointments = TwoDaySchedule
  /\ nextId = 3

ValidateWindow == \E s \in {1, 2}, e \in {1, 2} : validateSchedule(s, e)

NextFrame ==
  \/ ValidateWindow
  \/ Tick
  \/ UpdateStatus
  \/ UpdateCareGiverStatus

\* The validator over windows of one or two days and appointments in every
\* status
SpecFrame == InitTwoDays /\ [][NextFrame]_vars

\* The buffers the settings accept, from none to the largest
BufferSettings ==
  {[DefaultSettings EXCEPT !.travelTimeBufferMinutes = b] : b \in {0, 5, 15, 30, 60}}

\* The day of care giver 1: one appointment at care receiver 2, before or after
\* the candidate
BufferSchedules ==
  {1 :> Booked(2, T(9, 0), T(10, 0)), 1 :> Booked(2, T(12, 0), T(13, 0))}

InitBuffer ==
  /\ careGivers = InitialCareGivers
  /\ careReceivers = TravelReceivers
  /\ availabilities = InitialAvailabilities
  /\ appointments \in BufferSchedules
  /\ nextId = 2
  /\ settings \in BufferSettings
  /\ settingsCache = NoCache
  /\ now = 0
  /\ lastOp \in TravelRequests
  /\ procs = IdleProcs
  /\ nextCareGiverId = Len(InitialAvailabilities) + 1

\* isCareGiverAvailable next to one appointment, under each buffer
SpecBuffer == InitBuffer /\ [][CheckCandidate]_vars

NextRestore == Generate \/ Validate \/ UpdateCareGiverStatus

\* Generate runs and validations while care givers go off and come back
SpecRestore == Init /\ [][NextRestore]_vars

\* Care receiver 1 with one 30 minute visit at each of several times, care
\* receiver 2 ten minutes of travel away
GapReceivers ==
  {[TravelReceivers EXCEPT ![1].dailyVisits = <<Visit(1, t, 30, FALSE)>>] :
     t \in {T(8, 20), T(8, 30), T(9, 35), T(9, 45), T(9, 55), T(10, 0), T(10, 5), T(10, 25),
            T(10, 30), T(10, 35)}}

\* The day of care giver 1 before the run: free, one appointment, two apart,
\* and appointments of a care receiver that is gone
GapSchedules ==
  {<<>>,
   1 :> Booked(2, T(9, 0), T(9, 30)),
   1 :> Booked(2, T(9, 0), T(10, 0)),
   1 :> Booked(2, T(11, 0), T(12, 0)),
   1 :> Booked(2, T(9, 0), T(9, 30)) @@ 2 :> Booked(2, T(11, 0), T(12, 0)),
   1 :> Booked(3, T(9, 0), T(10, 0)),
   1 :> Booked(3, T(8, 0), T(10, 0)) @@ 2 :> Booked(2, T(8, 30), T(9, 0)),
   1 :> Booked(2, T(8, 0), T(10, 0)) @@ 2 :> Booked(3, T(8, 30), T(9, 0))}

\* Both care givers at work, or care giver 1 alone
GapRosters == {InitialCareGivers, [InitialCareGivers EXCEPT ![2].isActive = FALSE]}

InitGap ==
  /\ careGivers \in GapRosters
  /\ careReceivers \in GapReceivers
  /\ availabilities = InitialAvailabilities
  /\ appointments \in GapSchedules
  /\ nextId = Len(appointments) + 1
  /\ settings = DefaultSettings
  /\ settingsCache = NoCache
  /\ now = 0
  /\ lastOp = [op |-> "request", args |-> <<<<1>>, 1, 1>>, results |-> <<>>]
  /\ procs = IdleProcs
  /\ nextCareGiverId = Len(InitialAvailabilities) + 1

\* The one generate run asked for
RunGenerate ==
  /\ lastOp.op = "request"
  /\ LET acc == bulkSchedule(careGivers, careReceivers, availabilities, settings,
                             [apts |-> appointments, nextId |-> nextId, results |-> <<>>],
                             lastOp.args[1], lastOp.args[2], lastOp.args[3])
     IN /\ appointments' = acc.apts
        /\ nextId' = acc.nextId
        /\ lastOp' = [op |-> "generate", args |-> lastOp.args, results |-> acc.results]
  /\ UNCHANGED <<careGivers, careReceivers, availabilities, settings, settingsCache, now,
                 procs, nextCareGiverId>>

\* One generate run for care receiver 1 next to the day care giver 1 has
SpecGap == InitGap /\ [][RunGenerate]_vars

\* Bulk requests naming an id no care receiver has
BulkIdLists == {<<3>>, <<3, 1>>, <<2, 3>>, <<1, 3, 2>>, <<2, 1>>}

GenerateBulk ==
  \E ids \in BulkIdLists, s \in Days, e \in Days : generateSchedule(ids, s, e)

\* PUT /carereceivers/:id with an empty dailyVisits list
ClearVisits == \E id \in DOMAIN careReceivers : updateCareReceiverVisits(id, <<>>)

NextBulk == GenerateBulk \/ ClearVisits \/ DeleteApt

\* Bulk generate runs over lists with a missing id and over care receivers
\* whose visit templates were removed
SpecBulk == Init /\ [][NextBulk]_vars

(***************************************************************************)
(* Diagnostic analyzer (POST /schedule/analyze-unscheduled)                *)
(***************************************************************************)
\* The analyzer reads maxDistanceKm, maxAppointmentsPerDay and travelTimeBuffer
\* at the top level of the settings document, where the schema has none of
\* them: it works with its fallback values
AnalyzerMaxDistance == 20

AnalyzerMaxAppointmentsPerDay == 10

AnalyzerTravelTimeBuffer == 15

Rejection(reason, penalty) == <<[reason |-> reason, penalty |-> penalty]>>

\* Availability.findOne without a sort, then the embedded availability
AnalyzerAvailability(cgs, avs, g, date) ==
  LET matches == {i \in DOMAIN avs :
                    /\ avs[i].careGiver = g
                    /\ avs[i].effectiveFrom <= date
                    /\ (avs[i].effectiveTo = NoDate \/ avs[i].effectiveTo >= date)
                    /\ avs[i].isActive}
  IN IF matches # {}
       THEN LET i == CHOOSE i \in matches : \A j \in matches : i <= j
            IN [found |-> TRUE, schedule |-> avs[i].schedule, timeOff |-> avs[i].timeOff]
     ELSE IF Len(cgs[g].availability) > 0
       THEN [found |-> TRUE, schedule |-> cgs[g].availability, timeOff |-> cgs[g].timeOff]
     ELSE [found |-> FALSE, schedule |-> <<>>, timeOff |-> <<>>]

\* Checks 4 and 5: the weekday, the slot and the time off
AvailabilityRejections(cgs, avs, g, visit, date) ==
  LET availability == AnalyzerAvailability(cgs, avs, g, date)
      d == FindDay(availability.schedule, Weekday(date))
      endTime == ComputeEndTime(visit.preferredTime, visit.duration)
  IN IF ~availability.found THEN Rejection("No availability schedule configured", 100)
     ELSE (IF d = 0 \/ Len(availability.schedule[d].slots) = 0
             THEN Rejection("Not available on", 40)
           ELSE IF ~InWorkingHours(availability.schedule[d].slots, visit.preferredTime, endTime)
             THEN Rejection("Not available at", 30)
           ELSE <<>>)
          \o (IF OnInlineTimeOff(availability.timeOff, date)
                THEN Rejection("On time off during this period", 100)
              ELSE <<>>)

\* Math.round(((maxDistance - distance) / maxDistance) * 10)
DistanceBonus(distance) ==
  ((AnalyzerMaxDistance - distance) * 20 + AnalyzerMaxDistance) \div (2 * AnalyzerMaxDistance)

\* Check 8: the loop over the day's appointments, left at the first finding
RECURSIVE ConflictRejections(_, _, _, _, _)
ConflictRejections(apts, existing, crId, preferredTime, proposedEnd) ==
  IF existing = <<>> THEN <<>>
  ELSE LET e == apts[Head(existing)]
           timeBetweenStart == calculateDistance(ToMinutes(preferredTime), ToMinutes(e.endTime))
           timeBetweenEnd == calculateDistance(ToMinutes(proposedEnd), ToMinutes(e.startTime))
           minTimeBetween == IF timeBetweenStart < timeBetweenEnd THEN timeBetweenStart
                             ELSE timeBetweenEnd
       IN IF TimeOverlaps(preferredTime, proposedEnd, e)
            THEN Rejection("Schedule conflict", 40)
          ELSE IF /\ e.careReceiver # crId
                  /\ minTimeBetween < AnalyzerTravelTimeBuffer
                  /\ minTimeBetween > 0
            THEN Rejection("Insufficient travel time", 25)
          ELSE ConflictRejections(apts, Tail(existing), crId, preferredTime, proposedEnd)

RECURSIVE SumPenalties(_)
SumPenalties(rejections) ==
  IF rejections = <<>> THEN 0 ELSE Head(rejections).penalty + SumPenalties(Tail(rejections))

Clamp(score) == IF score < 0 THEN 0 ELSE IF score > 100 THEN 100 ELSE score

\* The analysis of one care giver
Analysis(cgs, crs, avs, apts, g, crId, visit, date) ==
  LET careGiver == cgs[g]
      careReceiver == crs[crId]
      missingSkills == visit.requirements \ careGiver.skills
      distance == calculateDistance(careGiver.loc, careReceiver.loc)
      ofTheDay == {i \in DOMAIN apts : /\ apts[i].careGiver = g
                                       /\ apts[i].date = date
                                       /\ apts[i].status \in ActiveStatuses}
      rejections ==
        (IF /\ careReceiver.genderPreference # "No Preference"
            /\ careGiver.gender # careReceiver.genderPreference
           THEN Rejection("Gender mismatch", 30) ELSE <<>>)
        \o (IF missingSkills # {}
              THEN Rejection("Missing required skills", 25 * Cardinality(missingSkills))
            ELSE <<>>)
        \o (IF visit.doubleHanded /\ careGiver.singleHandedOnly
              THEN Rejection("Single-handed only", 50) ELSE <<>>)
        \o AvailabilityRejections(cgs, avs, g, visit, date)
        \o (IF distance > AnalyzerMaxDistance THEN Rejection("Too far away", 20) ELSE <<>>)
        \o (IF Cardinality(ofTheDay) >= AnalyzerMaxAppointmentsPerDay
              THEN Rejection("Already has", 30) ELSE <<>>)
        \o ConflictRejections(apts, SortByStartTime(apts, ofTheDay), crId, visit.preferredTime,
                              ComputeEndTime(visit.preferredTime, visit.duration))
      bonus == IF distance > AnalyzerMaxDistance THEN 0 ELSE DistanceBonus(distance)
  IN [id |-> g, canAssign |-> rejections = <<>>,
      rejectionReasons |-> [k \in DOMAIN rejections |-> rejections[k].reason],
      matchScore |-> Clamp(100 - SumPenalties(rejections) + bonus),
      distance |-> distance]

\* CareGiver.find({isActive: true}): the ids in stored order
RECURSIVE IdsAscending(_)
IdsAscending(S) ==
  IF S = {} THEN <<>>
  ELSE LET m == CHOOSE i \in S : \A j \in S : i <= j IN <<m>> \o IdsAscending(S \ {m})

Unsorted(analyses) == analyses

\* careGiverAnalysis.sort((a, b) => b.matchScore - a.matchScore), a stable sort
RECURSIVE SortByMatchScore(_)
SortByMatchScore(analyses) ==
  IF analyses = <<>> THEN <<>>
  ELSE LET m == CHOOSE i \in DOMAIN analyses :
                  \A j \in DOMAIN analyses :
                    \/ analyses[i].matchScore > analyses[j].matchScore
                    \/ (analyses[i].matchScore = analyses[j].matchScore /\ i <= j)
       IN <<analyses[m]>>
            \o SortByMatchScore([k \in 1..(Len(analyses) - 1) |->
                                   IF k < m THEN analyses[k] ELSE analyses[k + 1]])

\* The careGiverAnalysis list of the response; none when the care receiver
\* is not found
analyzeUnscheduledAppointment(cgs, crs, avs, apts, crId, visit, date) ==
  LET active == IdsAscending({g \in DOMAIN cgs : cgs[g].isActive})
  IN IF crId \notin DOMAIN crs THEN <<>>
     ELSE SortByMatchScore([k \in DOMAIN active |->
                              Analysis(cgs, crs, avs, apts, active[k], crId, visit, date)])

\* Care givers the analyzer grades differently for care receiver 1 (at km 1)
AnalyzerProfiles ==
  {[InitialCareGivers[1] EXCEPT !.loc = 1],
   [InitialCareGivers[1] EXCEPT !.loc = 15],
   [InitialCareGivers[1] EXCEPT !.loc = 30],
   [InitialCareGivers[1] EXCEPT !.gender = "Male"],
   [InitialCareGivers[1] EXCEPT !.skills = {"companionship"}, !.singleHandedOnly = TRUE],
   [InitialCareGivers[1] EXCEPT !.singleHandedOnly = TRUE],
   [InitialCareGivers[1] EXCEPT !.timeOff = <<[startDate |-> 1, endDate |-> 1]>>],
   [InitialCareGivers[1] EXCEPT !.availability = <<>>],
   [InitialCareGivers[1] EXCEPT !.availability = Pattern(WorkDays, T(10, 0), T(18, 0))]}

AnalyzerRosters ==
  {1 :> a @@ 2 :> b @@ 3 :> c : a \in AnalyzerProfiles, b \in AnalyzerProfiles,
                                c \in AnalyzerProfiles}

AnalyzerReceivers ==
  {[InitialCareReceivers EXCEPT ![1].genderPreference = p] : p \in {"No Preference", "Female"}}

\* No version in the collection, or one of care giver 1 without Tuesdays
AnalyzerAvailabilities ==
  {<<>>,
   <<[careGiver |-> 1, effectiveFrom |-> 0, effectiveTo |-> NoDate,
      schedule |-> Pattern(<<"Wednesday">>, T(8, 0), T(18, 0)), timeOff |-> <<>>,
      isActive |-> TRUE, version |-> 1]>>}

\* The day of care giver 1: free, busy at the visit's time, busy at another
\* care receiver until five minutes before it, or with as many evening
\* appointments as the analyzer allows in a day
AnalyzerSchedules ==
  {<<>>, 1 :> Booked(2, T(9, 30), T(10, 30)), 1 :> Booked(2, T(8, 0), T(9, 25)),
   [i \in 1..AnalyzerMaxAppointmentsPerDay |-> Booked(1, T(16, 5 * i), T(16, 5 * i + 5))]}

\* Reports asked for both visits of care receiver 1 on Tuesday (day 1)
AnalyzerRequests ==
  {[op |-> "request", args |-> <<1, InitialCareReceivers[1].dailyVisits[v], 1>>,
    results |-> <<>>] : v \in {1, 2}}

InitAnalyzer ==
  /\ careGivers \in AnalyzerRosters
  /\ careReceivers \in AnalyzerReceivers
  /\ availabilities \in AnalyzerAvailabilities
  /\ appointments \in AnalyzerSchedules
  /\ nextId = 2
  /\ settings = DefaultSettings
  /\ settingsCache = NoCache
  /\ now = 0
  /\ lastOp \in AnalyzerRequests
  /\ procs = IdleProcs
  /\ nextCareGiverId = 4

Analyze ==
  /\ lastOp.op = "request"
  /\ lastOp' = [op |-> "analyze", args |-> lastOp.args,
                results |-> analyzeUnscheduledAppointment(careGivers, careReceivers,
                                                          availabilities, appointments,
                                                          lastOp.args[1], lastOp.args[2],
                                                          lastOp.args[3])]
  /\ UNCHANGED <<careGivers, careReceivers, availabilities, appointments, nextId, settings,
                 settingsCache, now, procs, nextCareGiverId>>

\* The analyzer over rosters of three care givers
SpecAnalyzer == InitAnalyzer /\ [][Analyze]_vars

(***************************************************************************)
(* Settings: the stored singleton, the service's cache, update and reset   *)
(***************************************************************************)
\* The TTL of the settings cache, in milliseconds
CACHE_TTL == 60000

\* Clock advances, in milliseconds, and the age past which the clock stops
ClockSteps == {29999, 30001}

MaxCacheAge == 90003

\* The singleton the Settings model creates: the scheduling fields and the
\* working hours of the system block
SettingsDocument ==
  [maxDistanceKm |-> 20, travelTimeBufferMinutes |-> 15, maxAppointmentsPerDay |-> 8,
   workingHoursStart |-> T(7, 0), workingHoursEnd |-> T(22, 0)]

\* Request bodies of PUT /api/settings, flattened; the weights in hundredths
SettingsUpdates ==
  {[maxAppointmentsPerDay |-> 5],
   [maxAppointmentsPerDay |-> 0],
   [maxAppointmentsPerDay |-> 21],
   [travelTimeBufferMinutes |-> 30],
   [maxDistanceKm |-> 101],
   [workingHoursStart |-> T(9, 0), workingHoursEnd |-> T(17, 0)],
   [workingHoursStart |-> T(22, 0), workingHoursEnd |-> T(7, 0)],
   [workingHoursEnd |-> T(7, 0)],
   [preferredCareGiverWeight |-> 50, distanceWeight |-> 30, availabilityWeight |-> 20],
   [preferredCareGiverWeight |-> 50, distanceWeight |-> 30, availabilityWeight |-> 30]}

OutOfRange(updates, field, min, max) ==
  field \in DOMAIN updates /\ (updates[field] < min \/ updates[field] > max)

\* The range checks of the controller; the schema's min and max repeat them
InvalidScheduling(updates) ==
  \/ OutOfRange(updates, "maxDistanceKm", 1, 100)
  \/ OutOfRange(updates, "travelTimeBufferMinutes", 0, 60)
  \/ OutOfRange(updates, "maxAppointmentsPerDay", 1, 20)

\* Settings.updateSettings: the spread of the request's blocks over the stored
\* ones; a path the schema does not declare is dropped on assignment
MergeSettings(document, updates) ==
  [f \in DOMAIN document |-> IF f \in DOMAIN updates THEN updates[f] ELSE document[f]]

Fresh(cache) == cache.present /\ cache.age < CACHE_TTL

CacheKept(saved) == settingsCache

\* settingsService.updateSettings: the saved document replaces the cache
CacheAfterUpdate(saved) == [present |-> TRUE, value |-> saved, age |-> 0]

\* settingsService.getSettings
GetSettings ==
  /\ IF Fresh(settingsCache)
       THEN /\ lastOp' = [op |-> "getSettings", args |-> <<>>, results |-> <<settingsCache.value>>]
            /\ UNCHANGED settingsCache
       ELSE /\ lastOp' = [op |-> "getSettings", args |-> <<>>, results |-> <<settings>>]
            /\ settingsCache' = [present |-> TRUE, value |-> settings, age |-> 0]
  /\ UNCHANGED <<careGivers, careReceivers, availabilities, appointments, nextId, settings,
                 now, procs, nextCareGiverId>>

\* PUT /api/settings: the results are the settings of the response, none
\* when the request is answered with an error
UpdateSettings(updates) ==
  /\ IF InvalidScheduling(updates)
       THEN /\ lastOp' = [op |-> "updateSettings", args |-> <<updates>>, results |-> <<>>]
            /\ UNCHANGED <<settings, settingsCache>>
       ELSE /\ settings' = MergeSettings(settings, updates)
            /\ settingsCache' = CacheAfterUpdate(settings')
            /\ lastOp' = [op |-> "updateSettings", args |-> <<updates>>, results |-> <<settings'>>]
  /\ UNCHANGED <<careGivers, careReceivers, availabilities, appointments, nextId,
                 now, procs, nextCareGiverId>>

\* POST /api/settings/reset
ResetSettings ==
  /\ settings' = SettingsDocument
  /\ settingsCache' = NoCache
  /\ lastOp' = [op |-> "resetSettings", args |-> <<>>, results |-> <<settings'>>]
  /\ UNCHANGED <<careGivers, careReceivers, availabilities, appointments, nextId,
                 now, procs, nextCareGiverId>>

\* Time passes while a value is cached
AdvanceClock ==
  \E dt \in ClockSteps :
    /\ settingsCache.present
    /\ settingsCache.age + dt <= MaxCacheAge
    /\ settingsCache' = [settingsCache EXCEPT !.age = @ + dt]
    /\ lastOp' = [op |-> "advance", args |-> <<>>, results |-> <<>>]
    /\ UNCHANGED <<careGivers, careReceivers, availabilities, appointments, nextId, settings,
                   now, procs, nextCareGiverId>>

InitSettings ==
  /\ careGivers = <<>>
  /\ careReceivers = <<>>
  /\ availabilities = <<>>
  /\ appointments = <<>>
  /\ nextId = 1
  /\ nextCareGiverId = 1
  /\ now = 0
  /\ procs = IdleProcs
  /\ lastOp = NoOp
  /\ settings = SettingsDocument
  /\ settingsCache = NoCache

NextSettings ==
  \/ GetSettings
  \/ \E updates \in SettingsUpdates : UpdateSettings(updates)
  \/ ResetSettings
  \/ AdvanceClock

SpecSettings == InitSettings /\ [][NextSettings]_vars

(***************************************************************************)
(* Settings calls in flight: getSettings awaits the fetch before it stores *)
(* into the cache, updateSettings awaits the save before it does           *)
(***************************************************************************)
\* A call of the settings service: where it is, the document it holds, and
\* the time since it took Date.now()
IdleCall == [pc |-> "idle", value |-> <<>>, elapsed |-> 0]

IdleCalls == [p \in Procs |-> IdleCall]

\* The updates the overlapping calls write
OverlapUpdates == {[maxAppointmentsPerDay |-> 5], [travelTimeBufferMinutes |-> 30]}

\* getSettings with a fresh cache: answered without an await
ReadCached(p) ==
  /\ procs[p].pc = "idle"
  /\ Fresh(settingsCache)
  /\ lastOp' = [op |-> "getSettings", args |-> <<>>, results |-> <<settingsCache.value>>]
  /\ UNCHANGED <<careGivers, careReceivers, availabilities, appointments, nextId, settings,
                 settingsCache, now, procs, nextCareGiverId>>

\* getSettings without one: now is taken and the singleton fetched
ReadFetches(p) ==
  /\ procs[p].pc = "idle"
  /\ ~Fresh(settingsCache)
  /\ procs' = [procs EXCEPT ![p] = [pc |-> "fetched", value |-> settings, elapsed |-> 0]]
  /\ lastOp' = [op |-> "fetch", args |-> <<>>, results |-> <<>>]
  /\ UNCHANGED <<careGivers, careReceivers, availabilities, appointments, nextId, settings,
                 settingsCache, now, nextCareGiverId>>

\* settingsCache = settings; cacheTimestamp = now; return settings
ReadStores(p) ==
  /\ procs[p].pc = "fetched"
  /\ settingsCache' = [present |-> TRUE, value |-> procs[p].value, age |-> procs[p].elapsed]
  /\ procs' = [procs EXCEPT ![p] = IdleCall]
  /\ lastOp' = [op |-> "getSettings", args |-> <<>>, results |-> <<procs[p].value>>]
  /\ UNCHANGED <<careGivers, careReceivers, availabilities, appointments, nextId, settings,
                 now, nextCareGiverId>>

\* updateSettings: Settings.updateSettings has saved.  Writes come one at a
\* time; reads overlap them.
WriteSaves(p, updates) ==
  /\ \A q \in Procs : procs[q].pc # "saved"
  /\ procs[p].pc = "idle"
  /\ ~InvalidScheduling(updates)
  /\ settings' = MergeSettings(settings, updates)
  /\ procs' = [procs EXCEPT ![p] = [pc |-> "saved", value |-> settings', elapsed |-> 0]]
  /\ lastOp' = [op |-> "save", args |-> <<updates>>, results |-> <<>>]
  /\ UNCHANGED <<careGivers, careReceivers, availabilities, appointments, nextId,
                 settingsCache, now, nextCareGiverId>>

\* settingsCache = settings; cacheTimestamp = Date.now()
WriteCaches(p) ==
  /\ procs[p].pc = "saved"
  /\ settingsCache' = CacheAfterUpdate(procs[p].value)
  /\ procs' = [procs EXCEPT ![p] = IdleCall]
  /\ lastOp' = [op |-> "updateSettings", args |-> <<>>, results |-> <<procs[p].value>>]
  /\ UNCHANGED <<careGivers, careReceivers, availabilities, appointments, nextId, settings,
                 now, nextCareGiverId>>

\* Time passes for the cache and for the reads in flight
TimePasses ==
  \E dt \in ClockSteps :
    /\ settingsCache.present \/ \E p \in Procs : procs[p].pc = "fetched"
    /\ settingsCache.age + dt <= MaxCacheAge
    /\ \A p \in Procs : procs[p].elapsed + dt <= MaxCacheAge
    /\ settingsCache' = IF settingsCache.present
                        THEN [settingsCache EXCEPT !.age = @ + dt] ELSE settingsCache
    /\ procs' = [p \in Procs |->
                   IF procs[p].pc = "fetched" THEN [procs[p] EXCEPT !.elapsed = @ + dt]
                   ELSE procs[p]]
    /\ lastOp' = [op |-> "advance", args |-> <<>>, results |-> <<>>]
    /\ UNCHANGED <<careGivers, careReceivers, availabilities, appointments, nextId, settings,
                   now, nextCareGiverId>>

InitSettingsCalls ==
  /\ careGivers = <<>>
  /\ careReceivers = <<>>
  /\ availabilities = <<>>
  /\ appointments = <<>>
  /\ nextId = 1
  /\ nextCareGiverId = 1
  /\ now = 0
  /\ procs = IdleCalls
  /\ lastOp = NoOp
  /\ settings = SettingsDocument
  /\ settingsCache = NoCache

NextSettingsCalls ==
  \/ \E p \in Procs : ReadCached(p)
  \/ \E p \in Procs : ReadFetches(p)
  \/ \E p \in Procs : ReadStores(p)
  \/ \E p \in Procs, updates \in OverlapUpdates : WriteSaves(p, updates)
  \/ \E p \in Procs : WriteCaches(p)
  \/ TimePasses

\* Settings reads and writes whose awaited steps interleave
SpecSettingsCalls == InitSettingsCalls /\ [][NextSettingsCalls]_vars

\* Preferred times the schema accepts, and durations the controllers accept
PreferredTimes == {T(h, m) : h \in {0, 8, 9, 10, 22, 23}, m \in {0, 30, 45}}

DurationInputs == {15, 30, 60, 90, 120}

\* A visit whose end time is not yet computed
EndTimeRequests ==
  {[op |-> "request", args |-> <<t, d>>, results |-> <<>>] :
     t \in PreferredTimes, d \in DurationInputs}

InitEndTime ==
  /\ careGivers = InitialCareGivers
  /\ careReceivers = InitialCareReceivers
  /\ availabilities = InitialAvailabilities
  /\ appointments = <<>>
  /\ nextId = 1
  /\ settings = DefaultSettings
  /\ settingsCache = NoCache
  /\ now = 0
  /\ lastOp \in EndTimeRequests
  /\ procs = IdleProcs
  /\ nextCareGiverId = Len(InitialAvailabilities) + 1

\* const endTime = `${hours + Math.floor(endMinutes / 60)}:${...}`
FormatEndTime ==
  /\ lastOp.op = "request"
  /\ lastOp' = [op |-> "endTime", args |-> lastOp.args,
                results |-> <<ComputeEndTime(lastOp.args[1], lastOp.args[2])>>]
  /\ UNCHANGED <<careGivers, careReceivers, availabilities, appointments, nextId, settings, settingsCache,
                 now, procs, nextCareGiverId>>

\* The end time of one visit for each preferred time and duration
SpecEndTime == InitEndTime /\ [][FormatEndTime]_vars

(***************************************************************************)
(* Properties                                                              *)
(***************************************************************************)
IsActiveApt(i) == appointments[i].status \in ActiveStatuses

CareGiversOf(apt) == {apt.careGiver, apt.secondaryCareGiver} \ {NoId}

\* [start, end) of the two appointments intersect
WindowsOverlap(a, b) ==
  /\ ToMinutes(a.startTime) < ToMinutes(b.endTime)
  /\ ToMinutes(b.startTime) < ToMinutes(a.endTime)

\* C1: no two distinct scheduled or in_progress appointments on the same date
\* that share a care giver (as primary or secondary) have overlapping
\* [start_time, end_time) windows.
C1_NoOverlap ==
  \A i, j \in DOMAIN appointments :
    (/\ i # j
     /\ IsActiveApt(i) /\ IsActiveApt(j)
     /\ appointments[i].date = appointments[j].date
     /\ CareGiversOf(appointments[i]) \cap CareGiversOf(appointments[j]) # {})
    => ~WindowsOverlap(appointments[i], appointments[j])

CreatedIn(results) ==
  UNION {{results[k].scheduled[m] : m \in DOMAIN results[k].scheduled} : k \in DOMAIN results}

\* C2: a generate run that directly follows a generate run with the same
\* receivers and the same date range, nothing having changed in between,
\* creates no appointment.
C2_SecondGenerateCreatesNothing ==
  [][(/\ lastOp.op = "generate"
      /\ lastOp'.op = "generate"
      /\ lastOp'.args = lastOp.args)
     => (CreatedIn(lastOp'.results) = {} /\ appointments' = appointments)]_vars

DayLoad(cg, d) ==
  Cardinality({i \in DOMAIN appointments :
                 /\ IsActiveApt(i)
                 /\ appointments[i].date = d
                 /\ cg \in CareGiversOf(appointments[i])})

\* C4: for every care giver and day, the number of scheduled or in_progress
\* appointments of the day in which the care giver is primary or secondary
\* is at most max_appointments_per_day.
C4_DailyCap ==
  \A cg \in DOMAIN careGivers, d \in Days :
    DayLoad(cg, d) <= OrDefault(settings.maxAppointmentsPerDay, 8)

\* C5: every double-handed appointment in scheduled status has a secondary
\* care giver that is present and differs from its care giver.
C5_DoubleHandedHasSecondary ==
  \A i \in DOMAIN appointments :
    (appointments[i].doubleHanded /\ appointments[i].status = "scheduled")
    => (/\ appointments[i].secondaryCareGiver # NoId
        /\ appointments[i].secondaryCareGiver # appointments[i].careGiver)

\* The care givers that pass the candidate filter and the feasibility check
\* for the visit, given the appointments apts
FeasibleCandidates(apts, careReceiver, visit, date) ==
  {g \in DOMAIN careGivers :
     /\ \E k \in DOMAIN PotentialCareGivers(careGivers, settings, careReceiver, visit, NoId) :
          PotentialCareGivers(careGivers, settings, careReceiver, visit, NoId)[k] = g
     /\ isCareGiverAvailable(careGivers, careReceivers, availabilities, apts, settings, g,
                             date, visit.preferredTime,
                             ComputeEndTime(visit.preferredTime, visit.duration),
                             careReceiver.loc).available}

NamesMissingSecondary(reason) ==
  Len(reason) > 0 /\ reason[1].text = "Primary CG found, but no secondary CG available: "

\* The last visit a generate step processed: the last template of the last
\* receiver on the last day.  created: what the step inserted for it;
\* before: the appointments as they were when the visit was reached.
LastVisitOutcome(P(_, _, _, _, _)) ==
  LET ids == lastOp'.args[1]
      date == lastOp'.args[3]
      c == ids[Len(ids)]
      visits == careReceivers[c].dailyVisits
      visit == visits[Len(visits)]
      created == {i \in DOMAIN appointments' \ DOMAIN appointments :
                    /\ appointments'[i].careReceiver = c
                    /\ appointments'[i].date = date
                    /\ appointments'[i].visitNumber = visit.visitNumber}
      before == [i \in DOMAIN appointments' \ created |-> appointments'[i]]
      failed == lastOp'.results[Len(ids)].failed
  IN (/\ lastOp'.op = "generate"
      /\ lastOp' # lastOp \/ appointments' # appointments
      /\ c \in DOMAIN careReceivers
      /\ Len(visits) > 0
      /\ visit.doubleHanded
      /\ shouldVisitOccur(visit, date, careReceivers[c].createdAt)
      /\ Cardinality(FeasibleCandidates(before, careReceivers[c], visit, date)) = 1)
     => P(created, failed, c, visit, date)

NotCommittedAndRecorded(created, failed, c, visit, date) ==
  /\ created = {}
  /\ Len(failed) > 0
  /\ failed[Len(failed)].visitNumber = visit.visitNumber
  /\ failed[Len(failed)].date = date
  /\ NamesMissingSecondary(failed[Len(failed)].reason)

\* C6: when the engine reaches a double-handed visit for which exactly one
\* care giver is feasible (a primary but no secondary), it creates no
\* appointment for the visit and records it in failed[] with a reason that
\* names the missing secondary.
C6_NoSecondaryNotCommitted == [][LastVisitOutcome(NotCommittedAndRecorded)]_vars

\* A generate run reported a visit as lacking a secondary, and the visit has
\* no appointment
C6_Witness ==
  /\ lastOp.op = "generate"
  /\ \E k \in DOMAIN lastOp.results :
       \E m \in DOMAIN lastOp.results[k].failed :
         /\ NamesMissingSecondary(lastOp.results[k].failed[m].reason)
         /\ ~\E i \in DOMAIN appointments :
               /\ appointments[i].careReceiver = lastOp.results[k].careReceiverId
               /\ appointments[i].date = lastOp.results[k].failed[m].date
               /\ appointments[i].visitNumber = lastOp.results[k].failed[m].visitNumber

OpenVersions(avs, careGiverId) ==
  {i \in DOMAIN avs : avs[i].careGiver = careGiverId /\ IsOpen(avs[i])}

AtMostOneOpen(avs) ==
  \A i \in DOMAIN avs : Cardinality(OpenVersions(avs, avs[i].careGiver)) <= 1

\* C3: while createNewVersion calls for a care giver interleave at their
\* persistence steps, no state a reader can observe has two versions of one
\* care giver that both have effectiveTo null and isActive true.
C3_NoTwoOpenVersions == AtMostOneOpen(availabilities)

\* The three fields the validator writes
Marks(apt) == <<apt.status, apt.invalidationReason, apt.invalidatedAt>>

\* C7: a validator run that follows a validator run over the same window,
\* no care giver, care receiver or appointment having been changed in
\* between, leaves the status, invalidationReason and invalidatedAt of every
\* appointment as they were.
C7_SecondRunIsNoOp ==
  [][(/\ lastOp.op = "validate"
      /\ lastOp'.op = "validate"
      /\ lastOp'.args = lastOp.args)
     => \A i \in DOMAIN appointments : Marks(appointments'[i]) = Marks(appointments[i])]_vars

OnTimeOffTexts ==
  {"Care giver is now on time off (", "Secondary care giver is now on time off ("}

MentionsTimeOff(reason) == \E k \in DOMAIN reason : reason[k].text \in OnTimeOffTexts

\* The care givers assigned to the appointment that have a holiday on its date
OnHoliday(apt) ==
  {g \in CareGiversOf(apt) \cap DOMAIN careGivers :
     FirstTimeOff(careGivers[g].timeOff, apt.date) # 0}

\* A step of the validator whose window holds the appointment
ValidatorVisits(i) ==
  /\ lastOp'.op = "validate"
  /\ lastOp' # lastOp \/ appointments' # appointments
  /\ i \in DOMAIN appointments
  /\ appointments[i].date >= lastOp'.args[1]
  /\ appointments[i].date <= lastOp'.args[2]

\* C8: a validator run over a window holding a scheduled appointment, one of
\* whose care givers has a holiday covering its date, sets it to
\* needs_reassignment with a reason containing "on time off"; a validator run
\* that finds such an appointment with the holiday gone restores it to
\* scheduled with invalidationReason and invalidatedAt null.
C8_HolidayFlaggedThenRestored ==
  [][\A i \in DOMAIN appointments :
       /\ (/\ ValidatorVisits(i)
           /\ appointments[i].status = "scheduled"
           /\ OnHoliday(appointments[i]) # {})
          => (/\ appointments'[i].status = "needs_reassignment"
              /\ MentionsTimeOff(appointments'[i].invalidationReason))
       /\ (/\ ValidatorVisits(i)
           /\ appointments[i].status = "needs_reassignment"
           /\ MentionsTimeOff(appointments[i].invalidationReason)
           /\ OnHoliday(appointments[i]) = {})
          => (/\ appointments'[i].status = "scheduled"
              /\ appointments'[i].invalidationReason = <<>>
              /\ appointments'[i].invalidatedAt = NoDate)]_vars

\* The appointment refers to someone who is gone or inactive
Stale(apt) ==
  \/ apt.careReceiver \notin DOMAIN careReceivers
  \/ ~careReceivers[apt.careReceiver].isActive
  \/ apt.careGiver \notin DOMAIN careGivers
  \/ ~careGivers[apt.careGiver].isActive
  \/ /\ apt.doubleHanded
     /\ apt.secondaryCareGiver # NoId
     /\ \/ apt.secondaryCareGiver \notin DOMAIN careGivers
        \/ ~careGivers[apt.secondaryCareGiver].isActive

\* C9: a validator run leaves in needs_reassignment every appointment it
\* scans whose care receiver, care giver or (when double-handed) secondary
\* care giver no longer exists or is no longer active.
C9_StaleAppointmentsFlagged ==
  [][\A i \in DOMAIN appointments :
       (/\ ValidatorVisits(i)
        /\ appointments[i].status \in ScannedStatuses
        /\ Stale(appointments[i]))
       => appointments'[i].status = "needs_reassignment"]_vars

\* The step is a createNewVersion call that inserted its version
VersionCreated ==
  /\ lastOp'.op = "createVersion"
  /\ lastOp'.results = <<TRUE>>
  /\ availabilities' # availabilities

CreatedByEngine ==
  IF lastOp'.op = "generate" THEN DOMAIN appointments' \ DOMAIN appointments ELSE {}

\* The holiday intervals of the care giver for the date: the inline list
\* together with the list of the version current for the date
HolidayIntervals(cgs, avs, g, date) ==
  LET av == getCurrentForCareGiver(avs, g, date)
      inline == {cgs[g].timeOff[k] : k \in DOMAIN cgs[g].timeOff}
  IN inline \cup (IF av = 0 THEN {} ELSE {avs[av].timeOff[k] : k \in DOMAIN avs[av].timeOff})

InsideHoliday(cgs, avs, g, date) ==
  \E to \in HolidayIntervals(cgs, avs, g, date) : date >= to.startDate /\ date <= to.endDate

\* C11: no appointment a generate run creates has a date inside a holiday
\* interval of its primary or secondary care giver as the care giver and the
\* availability store are when the run creates it.
C11_NotInsideHoliday ==
  [][\A i \in CreatedByEngine :
       \A g \in CareGiversOf(appointments'[i]) :
         ~InsideHoliday(careGivers, availabilities, g, appointments'[i].date)]_vars

\* The weekly pattern the care giver works to on the date: that of the
\* version current for the date, the inline pattern when the care giver has
\* no version
PatternInForce(cgs, avs, g, date) ==
  LET av == getCurrentForCareGiver(avs, g, date)
  IN IF av # 0 THEN avs[av].schedule
     ELSE IF \A i \in DOMAIN avs : avs[i].careGiver # g THEN cgs[g].availability
     ELSE <<>>

\* slot.start <= startTime and endTime <= slot.end for one slot of the weekday
InsideOneSlot(schedule, date, startTime, endTime) ==
  \E d \in DOMAIN schedule :
    /\ schedule[d].dayOfWeek = Weekday(date)
    /\ \E k \in DOMAIN schedule[d].slots :
         /\ ToMinutes(schedule[d].slots[k].startTime) <= ToMinutes(startTime)
         /\ ToMinutes(endTime) <= ToMinutes(schedule[d].slots[k].endTime)

\* C12: every appointment a generate run creates lies inside a single slot
\* of the weekday pattern of the current version (of the inline pattern when
\* no version exists) of its care giver and of its secondary care giver, as
\* the store is when the run creates it.
C12_InsideWorkingSlot ==
  [][\A i \in CreatedByEngine :
       \A g \in CareGiversOf(appointments'[i]) :
         InsideOneSlot(PatternInForce(careGivers, availabilities, g, appointments'[i].date),
                       appointments'[i].date, appointments'[i].startTime,
                       appointments'[i].endTime)]_vars

\* The visit numbers of the templates are 1, 2, ..., k, each once
NumbersAreExactPrefix(visits) ==
  /\ {visits[i].visitNumber : i \in DOMAIN visits} = 1..Len(visits)
  /\ \A i, j \in DOMAIN visits : visits[i].visitNumber = visits[j].visitNumber => i = j

\* C13: in every state reached by care receiver create and update requests,
\* the visit numbers of each care receiver's templates are exactly 1, 2, ..., k
\* with no gap and no duplicate.
C13_VisitNumbersSequential ==
  \A c \in DOMAIN careReceivers : NumbersAreExactPrefix(careReceivers[c].dailyVisits)

\* The dates on which the run attempted the visit: it left an appointment or
\* a failed[] entry for it
AttemptedDates(result, visitNumber) ==
  {result.failed[k].date :
     k \in {l \in DOMAIN result.failed : result.failed[l].visitNumber = visitNumber}}
  \cup
  {appointments[i].date :
     i \in {result.scheduled[l] : l \in DOMAIN result.scheduled} \cap
           {j \in DOMAIN appointments : appointments[j].visitNumber = visitNumber}}

\* floor((d - anchor) / 7 days)
WeeksSince(anchor, d) == (d - anchor) \div 7

\* The dates of the window on which the template recurs
ExpansionOf(visit, createdAt, startDate, endDate) ==
  LET anchor == IF visit.recurrenceStartDate # NoDate
                THEN visit.recurrenceStartDate ELSE createdAt
  IN {d \in startDate..endDate :
        /\ Weekday(d) \in visit.daysOfWeek
        /\ \/ visit.recurrencePattern = "weekly"
           \/ /\ WeeksSince(anchor, d) >= 0
              /\ WeeksSince(anchor, d) % visit.recurrenceInterval = 0}

\* C14: for every template and window, the dates on which a generate run
\* attempts the visit are exactly the dates d of the window whose weekday is
\* in daysOfWeek and for which the recurrence is weekly or
\* weeks >= 0 and weeks mod recurrenceInterval = 0, with
\* weeks = floor((d - anchor) / 7).
C14_ExpansionIsExact ==
  lastOp.op = "generate" =>
    \A k \in DOMAIN lastOp.results :
      \A n \in DOMAIN careReceivers[lastOp.results[k].careReceiverId].dailyVisits :
        LET cr == careReceivers[lastOp.results[k].careReceiverId]
        IN AttemptedDates(lastOp.results[k], cr.dailyVisits[n].visitNumber)
             = ExpansionOf(cr.dailyVisits[n], cr.createdAt, lastOp.args[2], lastOp.args[3])

\* A run over a window that holds dates before the anchor, dates on which the
\* visit recurs and weeks it skips
C14_Witness ==
  /\ lastOp.op = "generate"
  /\ careReceivers[1].dailyVisits[1].recurrenceStartDate = 16
  /\ lastOp.args = <<<<1>>, 0, 34>>
  /\ AttemptedDates(lastOp.results[1], 1) = {21}

\* The run expands the seeded biweekly Monday template (anchor 2025-12-30)
\* over 2025-12-29..2026-02-01
ThomasRun ==
  /\ lastOp.op = "generate"
  /\ lastOp.args = <<<<1>>, 0, 34>>
  /\ careReceivers[1].dailyVisits[1] = Recurring({"Monday"}, "biweekly", 2, 1)

C16_SingleHandedOnlyExcluded ==
  [][\A i \in CreatedByEngine :
       appointments'[i].doubleHanded =>
         \A g \in CareGiversOf(appointments'[i]) : ~careGivers[g].singleHandedOnly]_vars

\* The scheduled and in_progress appointments of the care giver on the date
DayOf(g, date) ==
  {i \in DOMAIN appointments :
     /\ IsActiveApt(i)
     /\ appointments[i].date = date
     /\ g \in CareGiversOf(appointments[i])}

\* The adjacent prior appointment: the latest one ending at or before start
PriorOf(g, date, startTime) ==
  {i \in DayOf(g, date) :
     /\ ToMinutes(appointments[i].endTime) <= ToMinutes(startTime)
     /\ \A j \in DayOf(g, date) :
          ToMinutes(appointments[j].endTime) <= ToMinutes(startTime)
            => ToMinutes(appointments[j].endTime) <= ToMinutes(appointments[i].endTime)}

\* The adjacent next appointment: the first one starting at or after end
NextOf(g, date, endTime) ==
  {i \in DayOf(g, date) :
     /\ ToMinutes(appointments[i].startTime) >= ToMinutes(endTime)
     /\ \A j \in DayOf(g, date) :
          ToMinutes(appointments[j].startTime) >= ToMinutes(endTime)
            => ToMinutes(appointments[j].startTime) >= ToMinutes(appointments[i].startTime)}

\* travel_time + travel_time_buffer_minutes between the appointment's care
\* receiver and loc
RequiredGap(i, loc) ==
  calculateTravelTime(careReceivers[appointments[i].careReceiver].loc, loc)
    + OrDefault(settings.travelTimeBufferMinutes, 15)

HasGeolocation(i) == appointments[i].careReceiver \in DOMAIN careReceivers

\* The gap to an adjacent appointment with a geolocation is below the required
TooClose(g, date, startTime, endTime, loc) ==
  \/ \E i \in PriorOf(g, date, startTime) :
       /\ HasGeolocation(i)
       /\ ToMinutes(startTime) - ToMinutes(appointments[i].endTime) < RequiredGap(i, loc)
  \/ \E i \in NextOf(g, date, endTime) :
       /\ HasGeolocation(i)
       /\ ToMinutes(appointments[i].startTime) - ToMinutes(endTime) < RequiredGap(i, loc)

TravelTexts ==
  {"Insufficient travel time from previous appointment",
   "Insufficient travel time to next appointment"}

RejectedForTravel(result) == ~result.available /\ result.reason[1].text \in TravelTexts

\* C17: a candidate that passes the checks before the travel checks is
\* rejected for insufficient travel time exactly when the gap to the adjacent
\* prior appointment (the latest one ending at or before start) or to the
\* adjacent next appointment (the first one starting at or after end), that
\* appointment having a geolocation, is strictly less than travel time plus
\* buffer; a gap equal to the required value is accepted.
C17_TravelGapRule ==
  lastOp.op = "check" =>
    LET result == lastOp.results[1]
    IN (result.available \/ RejectedForTravel(result))
         => (RejectedForTravel(result)
               <=> TooClose(lastOp.args[1], lastOp.args[2], lastOp.args[3], lastOp.args[4],
                            lastOp.args[5]))

\* The appointments the created one overlaps: active, same day, a care giver
\* in common
OverlappedBy(apts, a) ==
  {j \in DOMAIN apts :
     /\ apts[j].status \in ActiveStatuses
     /\ apts[j].date = a.date
     /\ CareGiversOf(apts[j]) \cap CareGiversOf(a) # {}
     /\ WindowsOverlap(apts[j], a)}

\* C18: two generate runs in flight can both pass the feasibility check for
\* one care giver before either inserts, and two overlapping scheduled
\* appointments of one care giver result; an appointment a run creates
\* overlaps an active appointment of one of its care givers only if that
\* appointment was inserted after the run's search.
C18_OverlapOnlyWithUnseen ==
  [][\A p \in Procs :
       (procs[p].pc = "create" /\ procs'[p] # procs[p] /\ nextId' = nextId + 1)
         => OverlappedBy(appointments, appointments'[nextId]) \cap procs[p].seen = {}]_vars

\* Two scheduled appointments of one care giver that overlap, both created by
\* generate runs
C18_Witness ==
  \E i, j \in DOMAIN appointments :
    /\ i # j
    /\ appointments[i].status = "scheduled" /\ appointments[j].status = "scheduled"
    /\ appointments[i].schedulingMethod = "automatic"
    /\ appointments[j].schedulingMethod = "automatic"
    /\ j \in OverlappedBy(appointments, appointments[i])

\* No two active appointments of the same day with a care giver in common
\* overlap
OverlapFree(apts) == \A i \in DOMAIN apts : OverlappedBy(apts, apts[i]) \subseteq {i}

\* C19: a generate run on its own, started from a state without overlaps,
\* creates no appointment that overlaps a scheduled or in_progress
\* appointment of its primary or secondary care giver on the same day, those
\* created earlier in the same run included.
C19_SingleRunNoOverlap ==
  [][OverlapFree(appointments)
       => \A i \in CreatedByEngine : OverlappedBy(appointments', appointments'[i]) \subseteq {i}]_vars

\* A run has created an appointment for a care giver who has another active
\* appointment that day
C19_Witness ==
  /\ lastOp.op = "generate"
  /\ OverlapFree(appointments)
  /\ \E k \in DOMAIN lastOp.results :
       \E n \in DOMAIN lastOp.results[k].scheduled :
         LET i == lastOp.results[k].scheduled[n]
         IN /\ i \in DOMAIN appointments
            /\ \E j \in DOMAIN appointments \ {i} :
                 /\ IsActiveApt(j)
                 /\ appointments[j].date = appointments[i].date
                 /\ CareGiversOf(appointments[j]) \cap CareGiversOf(appointments[i]) # {}

\* C20: for a preferred time in HH:MM form and a permitted duration whose
\* end stays before 24:00, the end time the engine computes is the zero-padded
\* HH:MM string of start + duration minutes, so it matches the Appointment
\* time format.
C20_EndTimeIsHHMM ==
  (lastOp.op = "endTime" /\ ToMinutes(lastOp.args[1]) + lastOp.args[2] < 24 * 60)
    => LET total == ToMinutes(lastOp.args[1]) + lastOp.args[2]
       IN /\ lastOp.results[1] = T(total \div 60, total % 60)
          /\ MatchesHHMM(lastOp.results[1])

\* The number of the first check of the list that the candidate fails, 0
\* when it fails none: 1 existence and active, 2 holiday, 3 weekly pattern,
\* 4 daily cap, 5 intra-day overlap, 6 travel time before, 7 travel time after
FirstFailingCheck(g, date, startTime, endTime, loc) ==
  IF g \notin DOMAIN careGivers \/ ~careGivers[g].isActive THEN 1
  ELSE IF InsideHoliday(careGivers, availabilities, g, date) THEN 2
  ELSE IF ~InsideOneSlot(PatternInForce(careGivers, availabilities, g, date), date,
                         startTime, endTime) THEN 3
  ELSE IF Cardinality(DayOf(g, date)) >= OrDefault(settings.maxAppointmentsPerDay, 8) THEN 4
  ELSE IF \E j \in DayOf(g, date) :
            /\ ToMinutes(startTime) < ToMinutes(appointments[j].endTime)
            /\ ToMinutes(appointments[j].startTime) < ToMinutes(endTime) THEN 5
  ELSE IF \E i \in PriorOf(g, date, startTime) :
            /\ HasGeolocation(i)
            /\ ToMinutes(startTime) - ToMinutes(appointments[i].endTime) < RequiredGap(i, loc)
    THEN 6
  ELSE IF \E i \in NextOf(g, date, endTime) :
            /\ HasGeolocation(i)
            /\ ToMinutes(appointments[i].startTime) - ToMinutes(endTime) < RequiredGap(i, loc)
    THEN 7
  ELSE 0

\* The check a reason belongs to
CheckOfReason(text) ==
  IF text \in {"Care giver not found", "Care giver is inactive"} THEN 1
  ELSE IF text = "Care giver is on time off" THEN 2
  ELSE IF text \in {"No availability schedule defined", "Not working on day",
                    "Outside working hours"} THEN 3
  ELSE IF text = "Already has appointments" THEN 4
  ELSE IF text = "Time slot conflicts with existing appointment" THEN 5
  ELSE IF text = "Insufficient travel time from previous appointment" THEN 6
  ELSE IF text = "Insufficient travel time to next appointment" THEN 7
  ELSE 0

\* C21: the feasibility check runs its checks in the order existence/active,
\* holiday, weekly pattern, daily cap, intra-day overlap, travel time before,
\* travel time after, and the reason it returns is that of the first check
\* that fails.
C21_FirstFailingCheckReported ==
  lastOp.op = "check" =>
    CheckOfReason(lastOp.results[1].reason[1].text)
      = FirstFailingCheck(lastOp.args[1], lastOp.args[2], lastOp.args[3], lastOp.args[4],
                          lastOp.args[5])

\* A candidate that is outside working hours, over the cap and on a day with
\* appointments is answered with the weekly pattern's reason
C21_Witness ==
  /\ lastOp.op = "check"
  /\ lastOp.args[2] = 1 /\ lastOp.args[3] = T(17, 45)
  /\ settings.maxAppointmentsPerDay = 1
  /\ Cardinality(DayOf(1, 1)) = 2
  /\ lastOp.results[1].reason[1].text = "Outside working hours"

\* The candidate filter: active, skilled for the visit, not the excluded one,
\* not single-handed-only on a single-handed visit, of the preferred gender,
\* within max_distance_km
PassesFilter(i, careReceiver, visit, excluded) ==
  /\ careGivers[i].isActive
  /\ visit.requirements \subseteq careGivers[i].skills
  /\ i # excluded
  /\ (~visit.doubleHanded => ~careGivers[i].singleHandedOnly)
  /\ (careReceiver.genderPreference # "No Preference"
        => careGivers[i].gender = careReceiver.genderPreference)
  /\ calculateDistance(careGivers[i].loc, careReceiver.loc)
       <= OrDefault(settings.maxDistanceKm, 20)

\* The care givers that pass the filter and the feasibility check
FeasibleCandidates22(careReceiver, visit, date, excluded) ==
  {i \in DOMAIN careGivers :
     /\ PassesFilter(i, careReceiver, visit, excluded)
     /\ isCareGiverAvailable(careGivers, careReceivers, availabilities, appointments, settings,
                             i, date, visit.preferredTime,
                             ComputeEndTime(visit.preferredTime, visit.duration),
                             careReceiver.loc).available}

\* haversine distance, minus 10 for the preferred care giver
ScoreOf(i, careReceiver) ==
  calculateDistance(careGivers[i].loc, careReceiver.loc)
    - (IF i = careReceiver.preferredCareGiver THEN 10 ELSE 0)

\* i comes before j in the candidate source: nearer first, then in store order
EarlierInSource(i, j, careReceiver) ==
  LET di == calculateDistance(careGivers[i].loc, careReceiver.loc)
      dj == calculateDistance(careGivers[j].loc, careReceiver.loc)
  IN di < dj \/ (di = dj /\ i <= j)

\* C22: the primary chosen for a visit is, among all active care givers that
\* pass the candidate filter and the feasibility check, one with minimum
\* score (distance, minus 10 for the receiver's preferred care giver), the
\* earliest in candidate-source order among equal scores.
C22_MinimumScoreChosen ==
  (lastOp.op = "findBest" /\ lastOp.results[1].careGiver # NoId) =>
    LET careReceiver == careReceivers[lastOp.args[1]]
        visit == careReceiver.dailyVisits[lastOp.args[2]]
        chosen == lastOp.results[1].careGiver
        feasible == FeasibleCandidates22(careReceiver, visit, lastOp.args[3], lastOp.args[4])
    IN /\ chosen \in feasible
       /\ \A j \in feasible :
            \/ ScoreOf(chosen, careReceiver) < ScoreOf(j, careReceiver)
            \/ /\ ScoreOf(chosen, careReceiver) = ScoreOf(j, careReceiver)
               /\ EarlierInSource(chosen, j, careReceiver)

\* Position of the care receiver in the list of the request
PositionIn(ids, id) == CHOOSE k \in DOMAIN ids : ids[k] = id /\ \A l \in 1..(k - 1) : ids[l] # id

\* Appointment i is for a receiver, day and template processed no later than
\* those of appointment j
ProcessedBefore(apts, ids, i, j) ==
  LET pi == PositionIn(ids, apts[i].careReceiver)
      pj == PositionIn(ids, apts[j].careReceiver)
  IN \/ pi < pj
     \/ pi = pj /\ apts[i].date < apts[j].date
     \/ pi = pj /\ apts[i].date = apts[j].date /\ apts[i].visitNumber <= apts[j].visitNumber

\* C23: a generate run processes the receivers in the order supplied, for
\* each the days of the range once each in increasing order, and within a day
\* the receiver's templates in ascending visit_number: of two appointments
\* the run creates, the one created first is for the earlier receiver, day
\* or visit number.
C23_ProcessingOrder ==
  [][\A i, j \in CreatedByEngine :
       i < j => ProcessedBefore(appointments', lastOp'.args[1], i, j)]_vars

\* b is a but for status, invalidation_reason and invalidated_at
SameButFlags(a, b) ==
  [b EXCEPT !.status = a.status, !.invalidationReason = a.invalidationReason,
            !.invalidatedAt = a.invalidatedAt] = a

\* C24: a validator run changes only status, invalidation_reason and
\* invalidated_at, and only of appointments that are scheduled or
\* needs_reassignment and dated in the window; it changes no assigned care
\* giver and creates or deletes no appointment.
C24_ValidatorFrame ==
  [][lastOp'.op = "validate" =>
       /\ DOMAIN appointments' = DOMAIN appointments
       /\ \A i \in DOMAIN appointments :
            /\ SameButFlags(appointments[i], appointments'[i])
            /\ appointments'[i] # appointments[i]
                 => /\ appointments[i].status \in {"scheduled", "needs_reassignment"}
                    /\ appointments[i].date >= lastOp'.args[1]
                    /\ appointments[i].date <= lastOp'.args[2]]_vars

\* A run has flagged one appointment and left alone another that has issues
\* too, being in progress or dated outside the window
C24_Witness ==
  /\ lastOp.op = "validate"
  /\ \E i, j \in DOMAIN appointments :
       /\ appointments[i].status = "needs_reassignment"
       /\ appointments[i].invalidatedAt = now
       /\ Len(Issues(careGivers, careReceivers, appointments[j])) > 0
       /\ appointments[j].invalidatedAt = NoDate
       /\ \/ appointments[j].status = "in_progress"
          \/ appointments[j].date > lastOp.args[2]

\* C25: once an availability version exists, no operation changes its weekly
\* schedule or its time_off list; the only change to an existing version is
\* its closing (effective_to and is_active).
C25_VersionsAppendOnly ==
  [][\A i \in DOMAIN availabilities :
       \* the versions of a deleted care giver go with the care giver
       Len(availabilities') >= Len(availabilities) =>
          [availabilities'[i] EXCEPT !.effectiveTo = availabilities[i].effectiveTo,
                                     !.isActive = availabilities[i].isActive]
            = availabilities[i]]_vars

\* C26: every version create_version inserts is numbered one above the
\* largest number the care giver had, so the versions of a care giver carry
\* pairwise distinct numbers that increase in creation order, also when
\* create_version calls for the care giver overlap in time.
C26_VersionNumbersIncrease ==
  \A i, j \in DOMAIN availabilities :
    (i < j /\ availabilities[i].careGiver = availabilities[j].careGiver)
      => availabilities[i].version < availabilities[j].version

\* C27: in a sequential history of reads, service writes, resets and clock
\* advances, a read returns the stored settings as the most recent write or
\* reset left them, and the value it returns was fetched or written less than
\* 60 seconds before the read.
C27_ReadsSeeLatestWrite ==
  [][lastOp'.op = "getSettings" =>
       /\ lastOp'.results[1] = settings
       /\ settingsCache'.present
       /\ settingsCache'.value = lastOp'.results[1]
       /\ settingsCache'.age < CACHE_TTL]_vars

\* A read served from the cache some time after a write changed the settings
C27_Witness ==
  /\ lastOp.op = "getSettings"
  /\ settingsCache.age > 0
  /\ settings # SettingsDocument
  /\ lastOp.results[1] = settings

WorkingHoursInvalid(document) ==
  ToMinutes(document.workingHoursEnd) <= ToMinutes(document.workingHoursStart)

Abs(n) == IF n < 0 THEN -n ELSE n

WeightsInvalid(updates) ==
  /\ "preferredCareGiverWeight" \in DOMAIN updates
  /\ Abs(updates.preferredCareGiverWeight + updates.distanceWeight
           + updates.availabilityWeight - 100) > 1

\* C28: a settings update whose save would leave working-hours end not
\* strictly after working-hours start, or whose three weights do not sum to
\* 1.0 within 0.01, is rejected and changes neither the stored settings nor
\* the cache.
C28_InvalidSettingsRejected ==
  [][(/\ lastOp'.op = "updateSettings"
      /\ \/ WorkingHoursInvalid(MergeSettings(settings, lastOp'.args[1]))
         \/ WeightsInvalid(lastOp'.args[1]))
       => /\ lastOp'.results = <<>>
          /\ settings' = settings
          /\ settingsCache' = settingsCache]_vars

\* The ids of a bulk request that scheduleForCareReceiver refuses
FailsAtOnce(id) == id \notin DOMAIN careReceivers \/ Len(careReceivers[id].dailyVisits) = 0

\* C29: in a bulk generate every id of the request gets a result entry in
\* request order; the entry of an id that does not exist or has no visit
\* templates records the error and no appointment is created for that id;
\* the appointments of the run are those of the same run without such ids.
C29_BulkFailuresRecorded ==
  [][lastOp'.op = "generate" =>
       LET ids == lastOp'.args[1]
           results == lastOp'.results
           others == SelectSeq(ids, LAMBDA id : ~FailsAtOnce(id))
       IN /\ Len(results) = Len(ids)
          /\ \A k \in DOMAIN ids :
               /\ results[k].careReceiverId = ids[k]
               /\ FailsAtOnce(ids[k]) =>
                    /\ results[k].error # <<>>
                    /\ results[k].scheduled = <<>>
                    /\ \A a \in DOMAIN appointments' \ DOMAIN appointments :
                         appointments'[a].careReceiver # ids[k]
          /\ appointments' =
               bulkSchedule(careGivers, careReceivers, availabilities, settings,
                            [apts |-> appointments, nextId |-> nextId, results |-> <<>>],
                            others, lastOp'.args[2], lastOp'.args[3]).apts]_vars

\* A run whose request names a failing id before an id it schedules
C29_Witness ==
  /\ lastOp.op = "generate"
  /\ \E k, j \in DOMAIN lastOp.results :
       /\ k < j
       /\ lastOp.results[k].error # <<>>
       /\ lastOp.results[k].careReceiverId = 3
       /\ lastOp.results[j].scheduled # <<>>
       /\ \E a \in DOMAIN appointments :
            appointments[a].careReceiver = lastOp.results[j].careReceiverId

\* C30: in every analyzer report the care givers that can be assigned come
\* before those that cannot, and within each of the two groups the match
\* scores descend.
C30_ReportOrder ==
  lastOp.op = "analyze" =>
    \A i, j \in DOMAIN lastOp.results :
      i < j =>
        /\ lastOp.results[i].canAssign \/ ~lastOp.results[j].canAssign
        /\ (lastOp.results[i].canAssign = lastOp.results[j].canAssign
              => lastOp.results[i].matchScore >= lastOp.results[j].matchScore)

\* A report in which the sort moved a care giver that can be assigned ahead of
\* one stored before it, and the two that cannot differ in score
C30_Witness ==
  /\ lastOp.op = "analyze"
  /\ Len(lastOp.results) = 3
  /\ lastOp.results[1].canAssign
  /\ lastOp.results[1].id = 3
  /\ ~lastOp.results[2].canAssign
  /\ lastOp.results[2].matchScore > lastOp.results[3].matchScore
  /\ lastOp.results[2].id = 2

\* travel_time plus the buffer as the settings store it
RequiredGapStored(i, loc) ==
  calculateTravelTime(careReceivers[appointments[i].careReceiver].loc, loc)
    + settings.travelTimeBufferMinutes

TooCloseStored(g, date, startTime, endTime, loc) ==
  \/ \E i \in PriorOf(g, date, startTime) :
       /\ HasGeolocation(i)
       /\ ToMinutes(startTime) - ToMinutes(appointments[i].endTime) < RequiredGapStored(i, loc)
  \/ \E i \in NextOf(g, date, endTime) :
       /\ HasGeolocation(i)
       /\ ToMinutes(appointments[i].startTime) - ToMinutes(endTime) < RequiredGapStored(i, loc)

\* C31: for every travel_time_buffer_minutes the settings permit, 0 included,
\* the feasibility check rejects a candidate for travel exactly when the gap
\* to the adjacent appointment is below travel_time plus that stored value.
C31_BufferAsStored ==
  lastOp.op = "check" =>
    LET result == lastOp.results[1]
    IN (result.available \/ RejectedForTravel(result))
         => (RejectedForTravel(result)
               <=> TooCloseStored(lastOp.args[1], lastOp.args[2], lastOp.args[3],
                                  lastOp.args[4], lastOp.args[5]))

\* C32: an appointment the validator restores from needs_reassignment to
\* scheduled overlaps no other scheduled or in_progress appointment of its
\* care givers on that day in the resulting state.
C32_RestoredWithoutOverlap ==
  [][lastOp'.op = "validate" =>
       \A i \in DOMAIN appointments :
         (appointments[i].status = "needs_reassignment"
            /\ appointments'[i].status = "scheduled")
           => OverlappedBy(appointments', appointments'[i]) \ {i} = {}]_vars

\* Start times of the one hour visits the check is probed with
ProbeTimes == {T(8, 0), T(9, 0), T(16, 0)}

\* The answer of the feasibility check for the care giver on the date, with
\* the care givers and versions given
Probe(cgs, avs, g, date, startTime) ==
  isCareGiverAvailable(cgs, careReceivers, avs, appointments, settings, g, date, startTime,
                       ComputeEndTime(startTime, 60), 1)

\* C33: creating a version with effective_from F leaves the answers of the
\* feasibility check unchanged for every date before F that the previously
\* open version covered.
C33_EarlierDatesKeepPattern ==
  [][(lastOp'.op = "createVersion" /\ lastOp'.results[1]) =>
       LET g == lastOp'.args[1]
           F == lastOp'.args[2]
       IN \A d \in 0..(F - 1) :
            LET v == getCurrentForCareGiver(availabilities, g, d)
            IN (v # 0 /\ IsOpen(availabilities[v]) /\ g \in DOMAIN careGivers)
                 => \A t \in ProbeTimes :
                      Probe(careGivers', availabilities', g, d, t)
                        = Probe(careGivers, availabilities, g, d, t)]_vars

\* The care giver passes the engine's candidate filter and feasibility check
\* for the visit of the care receiver on the date
EngineAccepts(g, crId, visit, date) ==
  /\ \E k \in DOMAIN NearCareGivers(careGivers, settings, careReceivers[crId], visit, NoId) :
       NearCareGivers(careGivers, settings, careReceivers[crId], visit, NoId)[k] = g
  /\ isCareGiverAvailable(careGivers, careReceivers, availabilities, appointments, settings,
                          g, date, visit.preferredTime,
                          ComputeEndTime(visit.preferredTime, visit.duration),
                          careReceivers[crId].loc).available

\* C34: the analyzer reports can_assign = true for a care giver exactly when
\* the care giver passes the engine's candidate filter and feasibility check
\* for that visit on that date.
C34_AnalyzerAgreesWithEngine ==
  lastOp.op = "analyze" =>
    \A k \in DOMAIN lastOp.results :
      lastOp.results[k].canAssign
        <=> EngineAccepts(lastOp.results[k].id, lastOp.args[1], lastOp.args[2], lastOp.args[3])

\* C35: once the settings calls in flight have finished, a read returns the
\* stored settings, also when a read and a write overlapped before: no read
\* returns the settings from before a finished write.
C35_NoStaleReadAfterOverlap ==
  [][(/\ \A p \in Procs : procs[p].pc = "idle"
      /\ procs' = procs
      /\ lastOp'.op = "getSettings")
       => lastOp'.results[1] = settings]_vars

\* The care giver's scheduled and in_progress appointments of the day among apts
ActiveOn(apts, g, date) ==
  {i \in DOMAIN apts : /\ apts[i].status \in ActiveStatuses
                       /\ apts[i].date = date
                       /\ g \in CareGiversOf(apts[i])}

\* j follows i on the day: it starts at or after the end of i, and no other
\* appointment of the day lies between the two
Consecutive(apts, S, i, j) ==
  /\ i # j
  /\ ToMinutes(apts[i].endTime) <= ToMinutes(apts[j].startTime)
  /\ ~\E k \in S \ {i, j} :
        /\ ToMinutes(apts[k].startTime) >= ToMinutes(apts[i].endTime)
        /\ ToMinutes(apts[k].endTime) <= ToMinutes(apts[j].startTime)

\* Every two consecutive appointments of a care giver on a day whose care
\* receivers have geolocations are travel time plus buffer apart
GapsHold(apts) ==
  \A g \in DOMAIN careGivers, date \in 0..MaxDay :
    \A i, j \in ActiveOn(apts, g, date) :
      (/\ Consecutive(apts, ActiveOn(apts, g, date), i, j)
       /\ apts[i].careReceiver \in DOMAIN careReceivers
       /\ apts[j].careReceiver \in DOMAIN careReceivers)
        => ToMinutes(apts[j].startTime) - ToMinutes(apts[i].endTime)
             >= estimateTravelTimeFromDistance(careReceivers[apts[i].careReceiver].loc,
                                               careReceivers[apts[j].careReceiver].loc)
                + settings.travelTimeBufferMinutes

\* C36: a generate run started where every two consecutive appointments of a
\* care giver on a day (receivers geolocated) are at least travel time plus
\* buffer apart leaves a state where they are.
C36_RunKeepsTravelGaps ==
  [][(lastOp'.op = "generate" /\ GapsHold(appointments)) => GapsHold(appointments')]_vars

\* C37: the care receiver's shouldVisitOccur and the scheduling engine's
\* shouldVisitOccur give the same answer for every template and every date.
C37_MethodsAgree ==
  lastOp.op = "shouldVisitOccur" => lastOp.results[1] = lastOp.results[2]

\* The visit of the care receiver with the number recurs on the date under
\* the expansion rule
RecursOn(careReceiver, visitNumber, date) ==
  \E k \in DOMAIN careReceiver.dailyVisits :
    /\ careReceiver.dailyVisits[k].visitNumber = visitNumber
    /\ shouldVisitOccur(careReceiver.dailyVisits[k], date, careReceiver.createdAt)

\* C38: the unscheduled listing for a window reports a (care receiver, date,
\* visit number) as missing if and only if the care receiver is active, the
\* template recurs on that date, and no appointment exists for the triple.
C38_MissingIffExpected ==
  lastOp.op = "getUnscheduled" =>
    \A id \in DOMAIN careReceivers, date \in lastOp.args[1]..lastOp.args[2],
       visitNumber \in 1..2 :
      <<id, date, visitNumber>> \in lastOp.results[1]
        <=> /\ careReceivers[id].isActive
            /\ RecursOn(careReceivers[id], visitNumber, date)
            /\ ~\E i \in DOMAIN appointments :
                  /\ appointments[i].careReceiver = id
                  /\ appointments[i].date = date
                  /\ appointments[i].visitNumber = visitNumber

====
